---- MODULE Spec2Model ----
(***************************************************************************)
(* Model of the PLEXOS co-optimisation pipeline scripts.                   *)
(*                                                                         *)
(*   Part I   the retry controller, Scripts/run_simulation max retries.py  *)
(*            main(): enqueue -> poll -> classify -> retry-or-stop ->      *)
(*            solution lookup -> download -> sentinel.                     *)
(*   Part II  the materializer, Scripts/prepare_duckdb.py prepare_duckdb().*)
(*   Part III the reporting pipeline, Scripts/processing_data.py main().   *)
(*   Part IV  the pipeline, master_app.py main().                          *)
(*   Part V   the controller that the pipeline starts,                     *)
(*            Scripts/run_simulation.py main().                            *)
(*   Part VI  the name of the solution folder in the three scripts.        *)
(*   Part VII two processes of prepare_duckdb.py on one store path.        *)
(*   Part VIII run_with_timeout of Scripts/datahub_sync.py.                *)
(*                                                                         *)
(* Each part has its own specifications; the variables of the other parts  *)
(* stay at their initial value.                                            *)
(***************************************************************************)
EXTENDS Integers, Sequences, FiniteSets, TLC

VARIABLES
    \* ---- Part I: locals of main() in "run_simulation max retries.py"
    pc,                    \* position of main() in its code
    MAX_ENQUEUE_RETRIES,   \* line 58, read once from the environment
    attempt,               \* line 199
    simulation_successful, \* line 200
    run_status,            \* line 240, last status a poll reported
    simulation_id,         \* line 227, id of the job being monitored
    elapsed,               \* time.time() - start_time, in ticks of one poll sleep
    \* ---- Part I: what the remote side and the file system have seen
    enqueues,              \* number of enqueue_simulation calls issued
    polls,                 \* number of check_simulation_progress calls issued
    lastEnqueue,           \* what the last enqueue call returned
    polledJob,             \* job id of the last poll, 0 before any poll
    lastPoll,              \* what the last poll returned
    retrySleeps,           \* number of time.sleep(RETRY_DELAY_SECONDS) calls
    outcomes,              \* how each attempt ended, in order
    lookups,               \* number of get_solution_id calls
    downloads,             \* number of download_solution calls
    downloadOk,            \* the last download_solution returned Success
    sentinel,              \* parquet_ready.done was written by this run
    \* ---- Part II: the file system that prepare_duckdb reads
    model_directory_exists,\* line 79: "Model {name} Solution" exists
    files,                 \* the parquet files each subdirectory holds itself
    memberships_csv,       \* line 191: memberships_data.csv exists
    \* ---- Part II: the store file solution_views.ddb
    store,                 \* table name -> table
    \* ---- Part II: locals of prepare_duckdb()
    step,                  \* position of prepare_duckdb() in its code
    item_index,            \* position of the loop of line 108 in directories
    fullkeyinfo_path,      \* line 103: the deferred directory, <<>> for None
    created_objects,       \* line 106
    lock_pid,              \* line 84: what is_file_locked returned
    failed_tables,         \* tables of the "Failed to create table" lines (138)
    \* ---- Part II: what the runs did
    run_limit,             \* calls of prepare_duckdb the pipeline makes
    runs,                  \* calls of prepare_duckdb that returned
    aborted,               \* calls of prepare_duckdb that raised
    fullkeyinfo_mode,      \* how the last run built fullkeyinfo (its log line)
    after_run,             \* the store's tables and row counts after each run
    \* ---- Part III: what processing_data.py reads and writes besides the store
    store_file_exists,     \* line 113: the store file is there
    today,                 \* line 116: datetime.date.today(), as a day number
    clock,                 \* the time, in runs of the reporting pipeline started
    views,                 \* the views that the store file holds
    exports,               \* the solution_data_* files in output_path
    \* ---- Part III: main() of processing_data.py
    report_step,           \* position of main() in its code
    report_limit,          \* calls of main() the model makes
    report_runs,           \* calls of main() that have ended
    report_outcome,        \* how the last call went
    completed_exports,     \* day and time of every call whose two exports succeeded
    \* ---- Part IV: main() of master_app.py
    app_pc,                \* position of main() in its code
    stage_log,             \* the run_step calls that waited: script, outcome, code
    app_exit,              \* exit code of master_app.py, -1 while it runs
    uploads,               \* the calls of upload_datahub, in order
    parquet_check,         \* what the check of lines 66-72 found
    \* ---- Part V: main() of run_simulation.py
    sim_pc,                \* position of main() in its code
    sim_enqueues,          \* number of enqueue_simulation calls issued
    sim_elapsed,           \* time.time() - start_time, in ticks of one poll sleep
    sim_status,            \* what the last poll returned
    sim_result,            \* how main() ended
    \* ---- Part VI: the solution folder as each script names it
    model_name,            \* the value of model_name in .env
    download_dir,          \* run_simulation max retries.py line 64, <<>> before
    scan_dir,              \* prepare_duckdb.py line 78, <<>> before
    check_dir,             \* master_app.py line 66, <<>> before
    \* ---- Part VII: two processes that run prepare_duckdb on one store path
    proc_pc,               \* position of each process in lines 84-105
    proc_scans,            \* scans of is_file_locked that found the file held
    proc_contended,        \* processes whose connect met the file held
    lock_enforced,         \* duckdb.connect refuses a file that a process holds
    \* ---- Part VIII: one call of run_with_timeout in datahub_sync.py
    rt_pc,                 \* position of the caller in lines 24-41
    rt_timeout,            \* the timeout argument, in ticks
    rt_clock,              \* ticks since thread.start()
    rt_thread,             \* the wrapper thread: none, running, returned, raised
    rt_cells,              \* result[0] and exc[0]
    rt_finished_at,        \* the tick at which func ended, -1 while it has not
    rt_outcome             \* how and when the caller was unblocked

ctlVars == <<pc, MAX_ENQUEUE_RETRIES, attempt, simulation_successful, run_status,
             simulation_id, elapsed, enqueues, lastEnqueue, polls, polledJob,
             lastPoll, retrySleeps, outcomes, lookups, downloads, downloadOk,
             sentinel>>

dbVars == <<model_directory_exists, files, memberships_csv, store, step,
            item_index, fullkeyinfo_path, created_objects, lock_pid,
            failed_tables, run_limit, runs, aborted, fullkeyinfo_mode, after_run>>

\* dbVars without the store
dbRest == <<model_directory_exists, files, memberships_csv, step,
            item_index, fullkeyinfo_path, created_objects, lock_pid,
            failed_tables, run_limit, runs, aborted, fullkeyinfo_mode, after_run>>

repVars == <<store_file_exists, today, clock, views, exports, report_step,
             report_limit, report_runs, report_outcome, completed_exports>>

appVars == <<app_pc, stage_log, app_exit, uploads, parquet_check>>

simVars == <<sim_pc, sim_enqueues, sim_elapsed, sim_status, sim_result>>

pathVars == <<model_name, download_dir, scan_dir, check_dir>>

procVars == <<proc_pc, proc_scans, proc_contended, lock_enforced>>

waitVars == <<rt_pc, rt_timeout, rt_clock, rt_thread, rt_cells, rt_finished_at,
              rt_outcome>>

\* the variables of the parts after Part IV
moreVars == <<simVars, pathVars, procVars, waitVars>>

\* the variables of the parts after Part IV without those of one part
simRest == <<pathVars, procVars, waitVars>>
pathRest == <<simVars, procVars, waitVars>>
procRest == <<simVars, pathVars, waitVars>>
waitRest == <<simVars, pathVars, procVars>>

vars == <<ctlVars, dbVars, repVars, appVars, moreVars>>

(***************************************************************************)
(* Bounds of the model.                                                    *)
(***************************************************************************)
\* largest MAX_ENQUEUE_RETRIES the environment supplies
MaxRetriesBound == 3
\* simulation_monitor_timeout_seconds, counted in poll sleeps of 30 s
TimeoutLimit == 2
\* calls of prepare_duckdb in one behaviour
MaxRuns == 3
\* rows of the unit parquet data
MaxUnitRows == 2
\* rows of the fullkeyinfo parquet data
MaxKeyRows == 2
\* changes of the solution directory in one behaviour
MaxChanges == 1
\* characters of model_name
MaxNameLen == 3
\* largest timeout of run_with_timeout, in ticks
MaxWait == 3
\* days on which the reporting pipeline runs
MaxDays == 2
\* calls of the reporting pipeline in one behaviour
MaxReportRuns == 3
\* rows of fullkeyinfo that the reporting views read
MaxReportKeys == 2
\* rows of data that the reporting views read
MaxDataRows == 3
\* rows of the memberships table that the reporting views read
MaxMemberRows == 2

(***************************************************************************)
(* Part I.  The retry controller.                                          *)
(***************************************************************************)
\* Job statuses of the remote system that the scripts name.
NonTerminalStatuses == {"Queued", "PreProcessing", "In Progress", "Running", "Postprocessing"}
KnownStatuses == NonTerminalStatuses \cup {"CompletedSuccess", "Failed", "Cancelled"}
\* A status value the remote system might report that no script names.
UnknownStatus == "Unrecognized"

\* What one enqueue_simulation + get_final_response can produce (lines 207-232).
EnqueueResponses == {"Raises", "NoFinalResponse", "NonSuccess", "NoSimulationId", "Success"}

\* What one check_simulation_progress + get_final_response can produce
\* (lines 242-250): the call raises, there is no final response, the response
\* is not Success, the response is Success without EventData, or the response
\* is Success with a status.
PollResponses ==
    {"Raises", "NoFinalResponse", "NonSuccess", "NoEventData"}
        \cup KnownStatuses \cup {UnknownStatus}

\* Responses of get_solution_id and download_solution (lines 289-312).
CallResponses == {"Raises", "NoFinalResponse", "NonSuccess", "Success"}

\* An attempt polls at most TimeoutLimit + 2 times before line 264 holds, so
\* no run issues more polls than this; the guard of Poll keeps the counter
\* finite.
PollCap == (MaxRetriesBound + 1) * (TimeoutLimit + 2)

Cap(t) == IF t > TimeoutLimit + 1 THEN TimeoutLimit + 1 ELSE t

\* line 202: while attempt < MAX_ENQUEUE_RETRIES and not simulation_successful
LoopGuard == attempt < MAX_ENQUEUE_RETRIES /\ ~simulation_successful

\* mutant: only a raising call or a missing response counts as a failure
EnqueueFailedNoStatusCheck(r) == r \in {"Raises", "NoFinalResponse"}

\* line 219: last_command_response is None or .Status != "Success"; the
\* except clause of lines 213-217 for a raising call.
EnqueueFailed(r) == r \in {"Raises", "NoFinalResponse", "NonSuccess"}

\* line 249: last_command_response and last_command_response.Status == "Success"
PollAnswered(r) == r \notin {"Raises", "NoFinalResponse", "NonSuccess"}

\* line 257: status in ["Failed", "Cancelled"]
EndsAttempt(s) == s \in {"Failed", "Cancelled"}

\* mutant: the monitoring loop has no timeout
NeverTimedOut(t) == FALSE

\* line 264: time.time() - start_time > timeout_limit
TimedOut(t) == t > TimeoutLimit

\* mutant: everything but success is retried
RetryAnyFailure(s) == s # "CompletedSuccess"

\* line 273: run_status in ["Failed", "Cancelled"]
RetryEligible(s) == s \in {"Failed", "Cancelled"}

\* mutant: off by one
AttemptsRemainInclusive == attempt <= MAX_ENQUEUE_RETRIES

\* line 274: attempt < MAX_ENQUEUE_RETRIES
AttemptsRemain == attempt < MAX_ENQUEUE_RETRIES

\* mutant: the download is attempted whatever the outcome
AlwaysDownload == TRUE

\* line 287: if simulation_successful
ShouldDownload == simulation_successful

\* mutant: run_status initialised once, before the retry loop
KeepRunStatus(prev) == prev

\* line 240: run_status = None at the start of every attempt's monitoring
InitialRunStatus(prev) == "None"

\* mutant: a poll that raises or is not answered breaks the monitoring loop
PollVerdictBreakOnError(r, now) ==
    IF r = "NoEventData" THEN "crash"
    ELSE IF ~PollAnswered(r) THEN "timeout"
    ELSE IF r = "CompletedSuccess" THEN "success"
    ELSE IF EndsAttempt(r) THEN "ended"
    ELSE IF TimedOut(now) THEN "timeout"
    ELSE "sleep"

\* lines 249-269: what one iteration of the monitoring loop decides.
\*   crash    line 250 raises AttributeError outside any try: main() dies
\*   success  lines 253-256, break
\*   ended    lines 257-260, break
\*   timeout  lines 264-267, break
\*   sleep    line 269, then the next iteration
PollVerdict(r, now) ==
    IF r = "NoEventData" THEN "crash"
    ELSE IF PollAnswered(r) /\ r = "CompletedSuccess" THEN "success"
    ELSE IF PollAnswered(r) /\ EndsAttempt(r) THEN "ended"
    ELSE IF TimedOut(now) THEN "timeout"
    ELSE "sleep"

InitCtl ==
    /\ pc = "loop"
    /\ MAX_ENQUEUE_RETRIES \in 0..MaxRetriesBound
    /\ attempt = 0
    /\ simulation_successful = FALSE
    /\ run_status = "None"
    /\ simulation_id = 0
    /\ elapsed = 0
    /\ enqueues = 0
    /\ lastEnqueue = "None"
    /\ polls = 0
    /\ polledJob = 0
    /\ lastPoll = "None"
    /\ retrySleeps = 0
    /\ outcomes = <<>>
    /\ lookups = 0
    /\ downloads = 0
    /\ downloadOk = FALSE
    /\ sentinel = FALSE

\* lines 202-204: the loop test and attempt += 1; line 287 when the loop ends.
LoopTest ==
    /\ pc = "loop"
    /\ IF LoopGuard
          THEN /\ attempt' = attempt + 1
               /\ pc' = "enqueue"
          ELSE /\ pc' = "post"
               /\ UNCHANGED attempt
    /\ UNCHANGED <<moreVars, dbVars, repVars, appVars, MAX_ENQUEUE_RETRIES, simulation_successful, run_status,
                   simulation_id, elapsed, enqueues, lastEnqueue, polls, polledJob, lastPoll,
                   retrySleeps, outcomes, lookups, downloads, downloadOk, sentinel>>

\* lines 206-240: enqueue, extract the simulation id, start monitoring.
Enqueue(r) ==
    /\ pc = "enqueue"
    /\ enqueues' = enqueues + 1
    /\ lastEnqueue' = r
    /\ IF EnqueueFailed(r)
          THEN /\ pc' = "done"                               \* lines 217, 222: return
               /\ outcomes' = Append(outcomes, "EnqueueFailed")
               /\ UNCHANGED <<simulation_id, elapsed, run_status>>
          ELSE IF r = "NoSimulationId"
          THEN /\ pc' = "done"                               \* line 232: return
               /\ outcomes' = Append(outcomes, "Malformed")
               /\ UNCHANGED <<simulation_id, elapsed, run_status>>
          ELSE /\ pc' = "poll"
               /\ simulation_id' = enqueues + 1              \* a fresh job id
               /\ elapsed' = 0                               \* line 236
               /\ run_status' = InitialRunStatus(run_status) \* line 240
               /\ UNCHANGED outcomes
    /\ UNCHANGED <<moreVars, dbVars, repVars, appVars, MAX_ENQUEUE_RETRIES, attempt, simulation_successful, polls,
                   polledJob, lastPoll, retrySleeps, lookups, downloads,
                   downloadOk, sentinel>>

\* lines 241-269: one iteration of the monitoring loop.  The call takes d
\* ticks; time.sleep(30) takes one tick.
Poll(r, d) ==
    /\ pc = "poll"
    /\ polls < PollCap
    /\ polls' = polls + 1
    /\ polledJob' = simulation_id
    /\ lastPoll' = r
    /\ LET now == Cap(elapsed + d)
           v   == PollVerdict(r, now)
       IN  /\ pc' = CASE v = "crash" -> "crashed"
                      [] v = "sleep" -> "poll"
                      [] OTHER       -> "classify"
           \* line 252: run_status = status, for every answered poll
           /\ run_status' = IF PollAnswered(r) /\ v # "crash" THEN r ELSE run_status
           /\ simulation_successful' = (simulation_successful \/ v = "success")
           /\ outcomes' = CASE v = "crash"   -> Append(outcomes, "Crashed")
                            [] v = "success" -> Append(outcomes, "Success")
                            [] v = "ended"   -> Append(outcomes, r)
                            [] v = "timeout" -> Append(outcomes, "Timeout")
                            [] OTHER         -> outcomes
           /\ elapsed' = IF v = "sleep" THEN Cap(now + 1) ELSE now
    /\ UNCHANGED <<moreVars, dbVars, repVars, appVars, MAX_ENQUEUE_RETRIES, attempt, simulation_id, enqueues,
                   lastEnqueue, retrySleeps, lookups, downloads, downloadOk, sentinel>>

\* lines 272-284: after the monitoring loop, retry or stop.
Classify ==
    /\ pc = "classify"
    /\ IF simulation_successful
          THEN /\ pc' = "loop"                               \* falls to the loop test
               /\ UNCHANGED retrySleeps
          ELSE IF RetryEligible(run_status)
          THEN IF AttemptsRemain
                  THEN /\ retrySleeps' = retrySleeps + 1     \* line 276
                       /\ pc' = "loop"                       \* line 277: continue
                  ELSE /\ pc' = "post"                       \* line 280: break
                       /\ UNCHANGED retrySleeps
          ELSE /\ pc' = "post"                               \* line 284: break
               /\ UNCHANGED retrySleeps
    /\ UNCHANGED <<moreVars, dbVars, repVars, appVars, MAX_ENQUEUE_RETRIES, attempt, simulation_successful, run_status,
                   simulation_id, elapsed, enqueues, lastEnqueue, polls, polledJob, lastPoll,
                   outcomes, lookups, downloads, downloadOk, sentinel>>

\* lines 287-298 and 321-322: look the solution id up, or give up.
GetSolution(r) ==
    /\ pc = "post"
    /\ IF ShouldDownload
          THEN /\ lookups' = lookups + 1
               /\ pc' = CASE r = "Raises"  -> "crashed"
                          [] r = "Success" -> "download"
                          [] OTHER         -> "done"         \* line 298: return
          ELSE /\ pc' = "done"                               \* line 322
               /\ UNCHANGED lookups
    /\ UNCHANGED <<moreVars, dbVars, repVars, appVars, MAX_ENQUEUE_RETRIES, attempt, simulation_successful, run_status,
                   simulation_id, elapsed, enqueues, lastEnqueue, polls, polledJob, lastPoll,
                   retrySleeps, outcomes, downloads, downloadOk, sentinel>>

\* lines 300-312: download the one solution id that was found.
Download(r) ==
    /\ pc = "download"
    /\ downloads' = downloads + 1
    /\ downloadOk' = (r = "Success")
    /\ pc' = IF r = "Raises" THEN "crashed" ELSE "sentinel"
    /\ UNCHANGED <<moreVars, dbVars, repVars, appVars, MAX_ENQUEUE_RETRIES, attempt, simulation_successful, run_status,
                   simulation_id, elapsed, enqueues, lastEnqueue, polls, polledJob, lastPoll,
                   retrySleeps, outcomes, lookups, sentinel>>

\* lines 314-320: write parquet_ready.done; a failing write is only logged.
WriteSentinel(ok) ==
    /\ pc = "sentinel"
    /\ sentinel' = ok
    /\ pc' = "done"
    /\ UNCHANGED <<moreVars, dbVars, repVars, appVars, MAX_ENQUEUE_RETRIES, attempt, simulation_successful, run_status,
                   simulation_id, elapsed, enqueues, lastEnqueue, polls, polledJob, lastPoll,
                   retrySleeps, outcomes, lookups, downloads, downloadOk>>

NextCtl ==
    \/ LoopTest
    \/ \E r \in EnqueueResponses : Enqueue(r)
    \/ \E r \in PollResponses, d \in 0..1 : Poll(r, d)
    \/ Classify
    \/ \E r \in CallResponses : GetSolution(r)
    \/ \E r \in CallResponses : Download(r)
    \/ \E ok \in BOOLEAN : WriteSentinel(ok)

Terminated == pc \in {"done", "crashed"}


(***************************************************************************)
(* Part II.  The materializer, prepare_duckdb.py.                          *)
(*                                                                         *)
(* Names are sequences of one-character strings, so that the sanitizer and *)
(* the case folding are computed, not assumed.  A directory is the         *)
(* sequence of the components of its path below the model directory.       *)
(***************************************************************************)
Range(f) == {f[k] : k \in DOMAIN f}

UpperChars == <<"A", "B", "C", "D", "E", "F", "G", "H", "I", "J", "K", "L", "M",
                "N", "O", "P", "Q", "R", "S", "T", "U", "V", "W", "X", "Y", "Z">>
LowerChars == <<"a", "b", "c", "d", "e", "f", "g", "h", "i", "j", "k", "l", "m",
                "n", "o", "p", "q", "r", "s", "t", "u", "v", "w", "x", "y", "z">>
Digits == {"0", "1", "2", "3", "4", "5", "6", "7", "8", "9"}

\* str.lower(), line 110
LowerChar(c) ==
    IF c \in Range(UpperChars)
       THEN LowerChars[CHOOSE k \in DOMAIN UpperChars : UpperChars[k] = c]
       ELSE c
Lower(name) == [k \in DOMAIN name |-> LowerChar(name[k])]

\* \w of the regular expression of line 30
IsWordChar(c) == c \in Range(UpperChars) \cup Range(LowerChars) \cup Digits \cup {"_"}

\* os.path.relpath(path, base), line 29: the components joined by the separator
RECURSIVE RelPath(_)
RelPath(dir) ==
    IF Len(dir) = 1 THEN dir[1]
    ELSE dir[1] \o <<"/">> \o RelPath(Tail(dir))

RECURSIVE DropNonWord(_)
DropNonWord(name) ==
    IF name = <<>> \/ IsWordChar(Head(name)) THEN name ELSE DropNonWord(Tail(name))

\* re.sub(r'\W+', '_', rel_name), line 30
RECURSIVE SubNonWord(_)
SubNonWord(name) ==
    IF name = <<>> THEN <<>>
    ELSE IF IsWordChar(Head(name)) THEN <<Head(name)>> \o SubNonWord(Tail(name))
    ELSE <<"_">> \o SubNonWord(DropNonWord(name))

\* str.strip('_'), line 30
RECURSIVE StripLeft(_)
StripLeft(name) ==
    IF name # <<>> /\ Head(name) = "_" THEN StripLeft(Tail(name)) ELSE name
RECURSIVE StripRight(_)
StripRight(name) ==
    IF name # <<>> /\ name[Len(name)] = "_"
       THEN StripRight(SubSeq(name, 1, Len(name) - 1))
       ELSE name
Strip(name) == StripRight(StripLeft(name))

\* lines 28-30
sanitize_view_name(dir) == Strip(SubNonWord(RelPath(dir)))

\* The names the code spells out.
N_period == <<"p", "e", "r", "i", "o", "d">>
N_Period == <<"P", "e", "r", "i", "o", "d">>
N_data == <<"d", "a", "t", "a">>
N_unit == <<"u", "n", "i", "t">>
N_fullkeyinfo == <<"f", "u", "l", "l", "k", "e", "y", "i", "n", "f", "o">>
N_fullkeyinfo_base == N_fullkeyinfo \o <<"_", "b", "a", "s", "e">>
N_memberships == <<"m", "e", "m", "b", "e", "r", "s", "h", "i", "p", "s">>

\* Names of directories outside the documented convention.
N_a == <<"a">>
N_b == <<"b">>
N_a_b == <<"a", "_", "b">>
N_1 == <<"1">>

\* line 110: os.path.basename(item).lower()
base_name(dir) == Lower(dir[Len(dir)])

\* lines 97-101 and 122: canonical_views.get(base_name, sanitize_view_name(...))
table_name(dir) ==
    CASE base_name(dir) = N_period -> N_Period
      [] base_name(dir) = N_data   -> N_data
      [] base_name(dir) = N_unit   -> N_unit
      [] OTHER                     -> sanitize_view_name(dir)

\* The subdirectories a solution may hold: the four of the documented
\* convention, and five more (1, a, a_b, a/b, a/data).  A directory without
\* parquet files is skipped at line 116, as if it were not there, so a tree
\* is given by the files each of these directories holds.  The list is in the
\* order of os.walk with sorted listings: the directories of the top level,
\* then those below a.
DirList == << <<N_1>>, <<N_Period>>, <<N_a>>, <<N_a_b>>, <<N_data>>,
              <<N_fullkeyinfo>>, <<N_unit>>, <<N_a, N_b>>, <<N_a, N_data>> >>
DirUniverse == Range(DirList)

\* the directories outside the convention
ExtraDirs == { <<N_1>>, <<N_a>>, <<N_a_b>>, <<N_a, N_b>>, <<N_a, N_data>> }

\* lines 33-38: os.walk lists a directory before the directories below it
find_subdirectories == DirList

\* DuckDB resolves table names without regard to case: the catalog key of a name
StoreKey(name) == Lower(name)

\* DROP TABLE / CREATE TABLE with a name that is no identifier (empty, or
\* starting with a digit) is a syntax error, caught at line 137
ValidIdentifier(name) == name # <<>> /\ name[1] \notin Digits

TableNames ==
    {StoreKey(table_name(d)) : d \in DirUniverse}
        \cup {StoreKey(N_fullkeyinfo), StoreKey(N_fullkeyinfo_base),
              StoreKey(N_memberships), StoreKey(N_unit)}

(***************************************************************************)
(* Data: a row is a function from column names to values; SQL NULL is a    *)
(* value of its own.                                                       *)
(***************************************************************************)
NULL == "NULL"

NoTable == [exists |-> FALSE, cols |-> {}, rows |-> <<>>]
Table(cols, rows) == [exists |-> TRUE, cols |-> cols, rows |-> rows]

\* What the parquet files of one directory hold: nothing, files that
\* read_parquet cannot load, or rows.
NoFiles == [kind |-> "none", cols |-> {}, rows |-> <<>>]
Unreadable == [kind |-> "unreadable", cols |-> {}, rows |-> <<>>]
Parquet(cols, rows) == [kind |-> "ok", cols |-> cols, rows |-> rows]

SeqsUpTo(S, n) == UNION {[1..k -> S] : k \in 0..n}

\* unit rows: UnitId may repeat and may be NULL
UnitRows ==
    { [UnitId |-> "1", UnitName |-> "TJ"], [UnitId |-> "1", UnitName |-> "GJ"],
      [UnitId |-> "2", UnitName |-> "GJ"], [UnitId |-> NULL, UnitName |-> "TJ"] }
UnitContents ==
    {NoFiles, Unreadable,
     Parquet({"UnitId"}, << [UnitId |-> "1"] >>)}
        \cup {Parquet({"UnitId", "UnitName"}, rows) : rows \in SeqsUpTo(UnitRows, MaxUnitRows)}

\* fullkeyinfo rows: SeriesId numbers the rows, UnitId is any of the values
KeyIds == {"1", "2", NULL}
KeyRows(ids) == [k \in DOMAIN ids |-> [SeriesId |-> k, UnitId |-> ids[k]]]
KeyContents ==
    {NoFiles, Unreadable,
     Parquet({"SeriesId"}, << [SeriesId |-> 1] >>)}
        \cup {Parquet({"SeriesId", "UnitId"}, KeyRows(ids)) : ids \in SeqsUpTo(KeyIds, MaxKeyRows)}

PeriodContents == {NoFiles, Parquet({"PeriodId"}, << [PeriodId |-> 1], [PeriodId |-> 2] >>)}
DataContents ==
    {NoFiles, Unreadable, Parquet({"SeriesId"}, << [SeriesId |-> 1], [SeriesId |-> 2] >>)}

\* a directory outside the convention holds no parquet file, or one row that
\* tells it from every other directory
ExtraContents(dir) ==
    {NoFiles,
     Parquet({"SeriesId"},
             << [SeriesId |-> 10 + (CHOOSE k \in DOMAIN DirList : DirList[k] = dir)] >>)}

ContentsOf(dir) ==
    CASE dir = <<N_Period>>      -> PeriodContents
      [] dir = <<N_data>>        -> DataContents
      [] dir = <<N_unit>>        -> UnitContents
      [] dir = <<N_fullkeyinfo>> -> KeyContents
      [] OTHER                   -> ExtraContents(dir)

\* the rows of memberships_data.csv, with the columns of the query of
\* write_memberships.py
MembershipsCsv ==
    Table({"parent_class", "child_class", "collection", "parent_object", "child_object",
           "subcollection_name"},
          << [parent_class |-> "Region", child_class |-> "Generator",
              collection |-> "Generators", parent_object |-> "R1",
              child_object |-> "G1", subcollection_name |-> ""] >>)

IsPrefix(a, b) == Len(a) <= Len(b) /\ SubSeq(b, 1, Len(a)) = a

\* line 112 and read_parquet of line 132: the files matched by
\* item/**/*.parquet are those of the directory and of every directory below.
RECURSIVE ReadAll(_, _)
ReadAll(fs, dirs) ==
    IF dirs = <<>> THEN NoFiles
    ELSE LET here == fs[Head(dirs)]
             rest == ReadAll(fs, Tail(dirs))
         IN  CASE here.kind = "none" -> rest
               [] rest.kind = "none" -> here
               [] here.kind = "unreadable" \/ rest.kind = "unreadable" -> Unreadable
               [] here.cols # rest.cols -> Unreadable
               [] OTHER -> Parquet(here.cols, here.rows \o rest.rows)

read_parquet(fs, dir) ==
    ReadAll(fs, SelectSeq(DirList, LAMBDA d : IsPrefix(dir, d)))

(***************************************************************************)
(* The store: DuckDB statements as functions on the table catalog.         *)
(***************************************************************************)
\* DROP TABLE IF EXISTS name
DropTable(s, name) == [s EXCEPT ![StoreKey(name)] = NoTable]

\* CREATE TABLE name AS SELECT ...
CreateTableAs(s, name, cols, rows) == [s EXCEPT ![StoreKey(name)] = Table(cols, rows)]

\* mutant: the rows are added to the table that is there (no DROP)
AppendTable(s, name, content) ==
    [s EXCEPT ![StoreKey(name)] = Table(content.cols, @.rows \o content.rows)]

\* lines 129-133 (and 193-197): DROP TABLE IF EXISTS, then CREATE TABLE AS
ReplaceTable(s, name, content) ==
    CreateTableAs(DropTable(s, name), name, content.cols, content.rows)

\* mutant: INNER JOIN, a row without a matching unit is dropped
RECURSIVE InnerJoin(_, _)
InnerJoin(left, right) ==
    IF left = <<>> THEN <<>>
    ELSE LET f == Head(left)
             m == SelectSeq(right, LAMBDA u : f.UnitId # NULL /\ u.UnitId = f.UnitId)
         IN  [k \in DOMAIN m |-> f @@ ("UnitName" :> m[k].UnitName)]
                 \o InnerJoin(Tail(left), right)

\* lines 162-164: SELECT fki.*, u.UnitName FROM fullkeyinfo_base fki
\*                LEFT JOIN unit u ON fki.UnitId = u.UnitId
\* NULL = NULL is not true in SQL: a NULL UnitId matches no row.
RECURSIVE LeftJoin(_, _)
LeftJoin(left, right) ==
    IF left = <<>> THEN <<>>
    ELSE LET f == Head(left)
             m == SelectSeq(right, LAMBDA u : f.UnitId # NULL /\ u.UnitId = f.UnitId)
         IN  (IF m = <<>>
                 THEN << f @@ ("UnitName" :> NULL) >>
                 ELSE [k \in DOMAIN m |-> f @@ ("UnitName" :> m[k].UnitName)])
                 \o LeftJoin(Tail(left), right)

\* line 153: PRAGMA table_info(unit); no columns when the table is missing
unit_columns(s) == IF s[StoreKey(N_unit)].exists THEN s[StoreKey(N_unit)].cols ELSE {}

\* line 159
JoinWithUnit(cols) == "UnitId" \in cols /\ "UnitName" \in cols

\* is_file_locked(filepath, retries=5), line 41
LockRetries == 5

\* lines 46-65: None as soon as one scan finds no process holding the file,
\* the PID of the holder when every one of the scans found one.  scans is the
\* number of scans, from the first on, that found the file held.
is_file_locked(scans) == IF scans >= LockRetries THEN "pid" ELSE "None"

\* mutant: the result of the lock check is ignored
IgnoreLock(pid) == FALSE

\* line 85: if lock_pid: raise RuntimeError
LockedOut(pid) == pid # "None"

\* mutant: the loop over the directories is abandoned at the first failure
AbandonLoop(i) == Len(find_subdirectories) + 1

\* lines 137-138: the except clause prints, the loop goes on with the next
\* directory
AfterTableFailure(i) == i + 1

\* mutant: fullkeyinfo is built in the loop like every other directory
NotDeferred(base) == FALSE

\* line 118: if base_name == "fullkeyinfo", the directory is kept for after
\* the loop
Deferred(base) == base = N_fullkeyinfo

\* the tables of a store and the number of rows of each (-1: no such table)
Summary(s) == [t \in TableNames |-> IF s[t].exists THEN Len(s[t].rows) ELSE -1]

\* entry of after_run that records a change of the source directory
SourceChanged == [t \in TableNames |-> -2]

EmptyStore == [t \in TableNames |-> NoTable]

\* The state of Part II before the first call; the source directory is any
\* of Sources.
InitDbWith(Sources, limit) ==
    /\ run_limit = limit
    /\ model_directory_exists \in BOOLEAN
    /\ files \in IF model_directory_exists
                    THEN Sources
                    ELSE {[d \in DirUniverse |-> NoFiles]}
    /\ memberships_csv \in BOOLEAN
    /\ store = EmptyStore
    /\ step = "idle"
    /\ item_index = 0
    /\ fullkeyinfo_path = <<>>
    /\ created_objects = <<>>
    /\ lock_pid = "None"
    /\ failed_tables = <<>>
    /\ runs = 0
    /\ aborted = 0
    /\ fullkeyinfo_mode = "none"
    /\ after_run = <<>>

\* lines 74-106: the checks before the store is opened, the directory list,
\* the connection.  locked is the number of scans of is_file_locked, from
\* the first on, that found the store file open in another process.
StartRun(locked) ==
    /\ step = "idle"
    /\ runs + aborted < run_limit
    /\ lock_pid' = IF model_directory_exists
                      THEN is_file_locked(locked)  \* line 84
                      ELSE "None"
    /\ IF ~model_directory_exists \/ LockedOut(lock_pid')
          THEN /\ aborted' = aborted + 1          \* raise, lines 80 and 86
               /\ UNCHANGED <<step, item_index, fullkeyinfo_path, created_objects,
                              failed_tables, fullkeyinfo_mode>>
          ELSE /\ step' = "walk"
               /\ item_index' = 1
               /\ fullkeyinfo_path' = <<>>        \* line 103
               /\ created_objects' = <<>>         \* line 106
               /\ failed_tables' = <<>>
               /\ fullkeyinfo_mode' = "none"
               /\ UNCHANGED aborted
    /\ UNCHANGED <<moreVars, ctlVars, repVars, appVars, run_limit, model_directory_exists, files, memberships_csv, store, runs,
                   after_run>>

\* lines 108-138: one iteration of the loop over directories.
MaterializeDirectory ==
    /\ step = "walk"
    /\ item_index <= Len(find_subdirectories)
    /\ LET item    == find_subdirectories[item_index]
           content == read_parquet(files, item)
           name    == table_name(item)
       IN  IF content.kind = "none"
              THEN /\ item_index' = item_index + 1                           \* line 116
                   /\ UNCHANGED <<store, fullkeyinfo_path, created_objects,
                                  failed_tables>>
           ELSE IF Deferred(base_name(item))
              THEN /\ fullkeyinfo_path' = item                               \* line 119
                   /\ item_index' = item_index + 1
                   /\ UNCHANGED <<store, created_objects, failed_tables>>
           ELSE IF name = <<>>
              THEN /\ item_index' = item_index + 1                           \* line 125
                   /\ UNCHANGED <<store, fullkeyinfo_path, created_objects,
                                  failed_tables>>
           ELSE IF ~ValidIdentifier(name)
              THEN /\ failed_tables' = Append(failed_tables, name)           \* line 129 raises
                   /\ item_index' = AfterTableFailure(item_index)
                   /\ UNCHANGED <<store, fullkeyinfo_path, created_objects>>
           ELSE IF content.kind = "unreadable"
              THEN /\ store' = DropTable(store, name)                        \* line 130 raises
                   /\ failed_tables' = Append(failed_tables, name)
                   /\ item_index' = AfterTableFailure(item_index)
                   /\ UNCHANGED <<fullkeyinfo_path, created_objects>>
           ELSE /\ store' = ReplaceTable(store, name, content)
                /\ created_objects' = Append(created_objects, name)
                /\ item_index' = item_index + 1
                /\ UNCHANGED <<fullkeyinfo_path, failed_tables>>
    /\ UNCHANGED <<moreVars, ctlVars, repVars, appVars, run_limit, model_directory_exists, files, memberships_csv, step, runs,
                   aborted, lock_pid, fullkeyinfo_mode, after_run>>

\* lines 140-182: fullkeyinfo, built after the loop.
BuildFullkeyinfo ==
    /\ step = "walk"
    /\ item_index > Len(find_subdirectories)
    /\ step' = "memberships"
    /\ IF fullkeyinfo_path = <<>>
          THEN /\ fullkeyinfo_mode' = "skipped"                            \* line 182
               /\ UNCHANGED <<store, created_objects>>
          ELSE LET content == read_parquet(files, fullkeyinfo_path)
                   s1 == DropTable(store, N_fullkeyinfo_base)              \* line 144
                   s2 == CreateTableAs(s1, N_fullkeyinfo_base,
                                       content.cols, content.rows)         \* line 145
                   s3 == DropTable(s2, N_fullkeyinfo)                      \* line 157
                   staging == s2[StoreKey(N_fullkeyinfo_base)]
                   unit == s2[StoreKey(N_unit)]
               IN  IF content.kind = "unreadable"
                      THEN /\ store' = s1                                  \* line 145 raises
                           /\ fullkeyinfo_mode' = "failed"
                           /\ UNCHANGED created_objects
                   ELSE IF JoinWithUnit(unit_columns(s2))
                      THEN IF "UnitId" \notin staging.cols
                              THEN /\ store' = s3                          \* line 160 raises
                                   /\ fullkeyinfo_mode' = "failed"
                                   /\ UNCHANGED created_objects
                              ELSE /\ store' =
                                        DropTable(
                                            CreateTableAs(s3, N_fullkeyinfo,
                                                staging.cols \cup {"UnitName"},
                                                LeftJoin(staging.rows, unit.rows)),
                                            N_fullkeyinfo_base)            \* lines 160-176
                                   /\ fullkeyinfo_mode' = "joined"
                                   /\ created_objects' = Append(created_objects, N_fullkeyinfo)
                      ELSE /\ store' =
                                DropTable(
                                    CreateTableAs(s3, N_fullkeyinfo,
                                                  staging.cols, staging.rows),
                                    N_fullkeyinfo_base)                    \* lines 169-176
                           /\ fullkeyinfo_mode' = "copied"
                           /\ created_objects' = Append(created_objects, N_fullkeyinfo)
    /\ UNCHANGED <<moreVars, ctlVars, repVars, appVars, run_limit, model_directory_exists, files, memberships_csv, item_index,
                   fullkeyinfo_path, lock_pid, failed_tables, runs, aborted, after_run>>

\* lines 184-216: memberships, the sanity counts, and the connection closed.
LoadMemberships ==
    /\ step = "memberships"
    /\ store' = IF memberships_csv
                   THEN ReplaceTable(store, N_memberships, MembershipsCsv)  \* lines 193-197
                   ELSE store
    /\ step' = "idle"
    /\ runs' = runs + 1
    /\ after_run' = Append(after_run, Summary(store'))
    /\ UNCHANGED <<moreVars, ctlVars, repVars, appVars, run_limit, model_directory_exists, files, memberships_csv, item_index,
                   fullkeyinfo_path, created_objects, lock_pid, failed_tables, aborted,
                   fullkeyinfo_mode>>

\* Between two calls the solution directory may change: a subdirectory that
\* holds parquet files loses them, or gets files that cannot be loaded (the download of
\* line 301 of the controller overwrites the directory).
SourceChanges(dir, content) ==
    /\ step = "idle"
    /\ runs + aborted < run_limit
    /\ model_directory_exists
    /\ files[dir] # NoFiles
    /\ files[dir] # content
    /\ Cardinality({k \in DOMAIN after_run : after_run[k] = SourceChanged}) < MaxChanges
    /\ files' = [files EXCEPT ![dir] = content]
    /\ after_run' = Append(after_run, SourceChanged)
    /\ UNCHANGED <<moreVars, ctlVars, repVars, appVars, run_limit, model_directory_exists, memberships_csv, store, step, item_index,
                   fullkeyinfo_path, created_objects, lock_pid, failed_tables, runs, aborted,
                   fullkeyinfo_mode>>

NextDb ==
    \/ \E locked \in 0..LockRetries : StartRun(locked)
    \/ MaterializeDirectory
    \/ BuildFullkeyinfo
    \/ LoadMemberships
    \/ \E dir \in DirUniverse, content \in {NoFiles, Unreadable} :
          SourceChanges(dir, content)

\* the steps of calls of prepare_duckdb on a source tree that stays as it is
NextRun ==
    \/ \E locked \in 0..LockRetries : StartRun(locked)
    \/ MaterializeDirectory
    \/ BuildFullkeyinfo
    \/ LoadMemberships

(***************************************************************************)
(* Part III.  The reporting pipeline, processing_data.py.                  *)
(*                                                                         *)
(* It opens the store file that prepare_duckdb left, reloads memberships   *)
(* from the CSV, defines three views and exports the last of them.         *)
(***************************************************************************)
\* the views of configure_views, lines 43, 59 and 74
V_capacity == "regional_generation_capacity"
V_totals == "region_aggregate_totals"
V_reporting == "reporting_data"

\* lines 61-64: the columns of fullkeyinfo that region_aggregate_totals groups by
KeyDims ==
    {"PhaseName", "BandId", "PeriodTypeName", "ParentObjectCategoryName",
     "ParentObjectName", "ChildObjectCategoryName", "ParentClassName",
     "CollectionName", "ChildClassName", "PropertyName", "UnitValue",
     "TimesliceName", "ModelName", "SampleId", "SampleName", "ChildObjectName"}

\* lines 67-70: GROUP BY
GroupColumns == KeyDims \cup {"PeriodId"}

\* lines 76-79: the columns of region_aggregate_totals that reporting_data keeps
ReportDims == KeyDims \ {"ChildObjectName"}

KeyColumns == KeyDims \cup {"SeriesId"}
DataColumns == {"SeriesId", "PeriodId", "Value"}
PeriodColumns == {"PeriodId", "StartDate", "EndDate"}

\* a row of fullkeyinfo: series k, a property of a generator
ReportKey(k, property, child) ==
    [SeriesId |-> k, PhaseName |-> "ST", BandId |-> 1, PeriodTypeName |-> "Interval",
     ParentObjectCategoryName |-> "-", ParentObjectName |-> "System",
     ChildObjectCategoryName |-> "Gas", ParentClassName |-> "System",
     CollectionName |-> "Generators", ChildClassName |-> "Generator",
     PropertyName |-> property, UnitValue |-> "MW", TimesliceName |-> "-",
     ModelName |-> "Base", SampleId |-> 0, SampleName |-> "Mean",
     ChildObjectName |-> child]

\* property and generator of the rows of fullkeyinfo; Price is filtered out
KeyVariants == { <<"Generation", "G1">>, <<"Generation", "G2">>, <<"Price", "G1">> }

ReportKeyRows(variants) ==
    [k \in DOMAIN variants |-> ReportKey(k, variants[k][1], variants[k][2])]

\* the Value of the k-th row of data
ValueOf(k) == CASE k = 1 -> 5 [] k = 2 -> 7 [] OTHER -> 3

\* rows of data: the k-th row is for series cells[k][1] in period cells[k][2]
ReportDataRows(cells) ==
    [k \in DOMAIN cells |->
        [SeriesId |-> cells[k][1], PeriodId |-> cells[k][2], Value |-> ValueOf(k)]]

ReportPeriodRows ==
    << [PeriodId |-> 1, StartDate |-> 1, EndDate |-> 2],
       [PeriodId |-> 2, StartDate |-> 2, EndDate |-> 3] >>

\* lines 50-55: the WHERE clause of regional_generation_capacity
PassesFilter(key) ==
    /\ key.PeriodTypeName = "Interval"
    /\ key.PhaseName = "ST"
    /\ key.ParentClassName = "System"
    /\ key.ChildClassName = "Generator"
    /\ key.PropertyName \in {"Generation", "Available Capacity"}

\* lines 44-49: SELECT key.*, d.PeriodId, d.Value
\*              FROM fullkeyinfo AS key INNER JOIN data d ON d.SeriesId = key.SeriesId
RECURSIVE JoinData(_, _)
JoinData(keys, data) ==
    IF keys = <<>> THEN <<>>
    ELSE LET key == Head(keys)
             m   == SelectSeq(data, LAMBDA d : d.SeriesId = key.SeriesId)
         IN  [i \in DOMAIN m |->
                 key @@ ("PeriodId" :> m[i].PeriodId @@ "Value" :> m[i].Value)]
                 \o JoinData(Tail(keys), data)

\* lines 43-56: the rows of the view regional_generation_capacity
regional_generation_capacity(s) ==
    JoinData(SelectSeq(s[StoreKey(N_fullkeyinfo)].rows, PassesFilter),
             s[StoreKey(N_data)].rows)

\* the values of the GROUP BY columns of a row
GroupKey(row) == [c \in GroupColumns |-> row[c]]

\* mutant: the group keeps the value of its last row
KeepLast(total, value) == value

\* line 65: SUM(Value), one row at a time
Accumulate(total, value) == total + value

\* lines 59-71: the aggregation, row by row: a row joins the group that has
\* its values of the GROUP BY columns, or starts a group
RECURSIVE GroupBy(_, _)
GroupBy(rows, groups) ==
    IF rows = <<>> THEN groups
    ELSE LET r   == Head(rows)
             hit == {i \in DOMAIN groups : GroupKey(groups[i]) = GroupKey(r)}
         IN  GroupBy(Tail(rows),
                 IF hit = {}
                    THEN Append(groups, GroupKey(r) @@ ("TotalValue" :> r.Value))
                    ELSE LET i == CHOOSE i \in hit : TRUE
                         IN  [groups EXCEPT ![i].TotalValue = Accumulate(@, r.Value)])

\* lines 59-71: the rows of the view region_aggregate_totals
region_aggregate_totals(s) == GroupBy(regional_generation_capacity(s), <<>>)

\* mutant: INNER JOIN memberships
InnerMembershipsOf(t, memberships) ==
    SelectSeq(memberships, LAMBDA x : /\ x.child_object = t.ChildObjectName
                                      /\ x.child_class = t.ChildClassName)

\* lines 86-87: LEFT JOIN memberships m ON m.child_object = t.ChildObjectName
\*              AND m.child_class = t.ChildClassName
MembershipsOf(t, memberships) ==
    LET m == SelectSeq(memberships, LAMBDA x : /\ x.child_object = t.ChildObjectName
                                               /\ x.child_class = t.ChildClassName)
    IN  IF m = <<>>
           THEN << [parent_class |-> NULL, parent_object |-> NULL, collection |-> NULL] >>
           ELSE m

\* lines 75-84: the columns of one row of reporting_data
ReportRow(t, m, p, now) ==
    [c \in ReportDims |-> t[c]]
        @@ [MembershipParentClass |-> m.parent_class,
            MembershipParentObject |-> m.parent_object,
            MembershipCollection |-> m.collection,
            StartDate |-> p.StartDate, EndDate |-> p.EndDate,
            SolutionDate |-> now, TotalValue |-> t.TotalValue]

\* lines 85-89: the joins of reporting_data
RECURSIVE EnrichTotals(_, _, _, _)
EnrichTotals(totals, memberships, periods, now) ==
    IF totals = <<>> THEN <<>>
    ELSE LET t  == Head(totals)
             ms == MembershipsOf(t, memberships)
             ps == SelectSeq(periods, LAMBDA p : p.PeriodId = t.PeriodId)
         IN  [k \in 1..(Len(ms) * Len(ps)) |->
                 ReportRow(t, ms[((k - 1) \div Len(ps)) + 1],
                           ps[((k - 1) % Len(ps)) + 1], now)]
                 \o EnrichTotals(Tail(totals), memberships, periods, now)

\* lines 74-90: the rows of the view reporting_data, read at time now
reporting_data(s, now) ==
    EnrichTotals(region_aggregate_totals(s), s[StoreKey(N_memberships)].rows,
                 s[StoreKey(N_period)].rows, now)

\* CREATE VIEW binds its query: the tables and columns it names must exist.
BindsCapacity(s) ==
    /\ s[StoreKey(N_fullkeyinfo)].exists
    /\ {"SeriesId", "PeriodTypeName", "PhaseName", "ParentClassName", "ChildClassName",
        "PropertyName"} \subseteq s[StoreKey(N_fullkeyinfo)].cols
    /\ s[StoreKey(N_data)].exists
    /\ DataColumns \subseteq s[StoreKey(N_data)].cols

BindsTotals(s) ==
    GroupColumns \cup {"Value"}
        \subseteq s[StoreKey(N_fullkeyinfo)].cols \cup {"PeriodId", "Value"}

BindsReporting(s) ==
    /\ s[StoreKey(N_memberships)].exists
    /\ {"parent_class", "parent_object", "collection", "child_object", "child_class"}
          \subseteq s[StoreKey(N_memberships)].cols
    /\ s[StoreKey(N_period)].exists
    /\ PeriodColumns \subseteq s[StoreKey(N_period)].cols

\* lines 42-90: the views that the three CREATE OR REPLACE VIEW statements
\* define before the first of them that raises
ViewsDefined(s) ==
    IF ~BindsCapacity(s) THEN {}
    ELSE IF ~BindsTotals(s) THEN {V_capacity}
    ELSE IF ~BindsReporting(s) THEN {V_capacity, V_totals}
    ELSE {V_capacity, V_totals, V_reporting}

\* mutant: the file name carries the time of the run
StampedName(date, extension) == <<"solution_data", date, clock, extension>>

\* lines 93-94: solution_data_{date_str}.parquet, solution_data_{date_str}.csv
ExportName(date, extension) == <<"solution_data", date, extension>>

\* COPY ... TO 'path': the file of that name is written anew
WriteFile(fs, name, content) ==
    {f \in fs : f.name # name} \cup {[name |-> name, content |-> content]}

\* the positions of main(): idle (not running), connected (line 119),
\* loaded (after line 122), configured (after line 123)
InitRepWith(limit) ==
    /\ report_limit = limit
    /\ store_file_exists \in BOOLEAN
    /\ today = 1
    /\ clock = 0
    /\ report_step = "idle"
    /\ views = {}
    /\ exports = {}
    /\ report_runs = 0
    /\ report_outcome = "none"
    /\ completed_exports = <<>>

\* lines 109-120: the store file must exist; the date stamp; the connection.
ReportStart ==
    /\ report_step = "idle"
    /\ report_runs < report_limit
    /\ clock' = clock + 1
    /\ IF ~store_file_exists
          THEN /\ report_outcome' = "failed"       \* line 114 raises, 128-130 print
               /\ report_runs' = report_runs + 1
               /\ UNCHANGED report_step
          ELSE /\ report_step' = "connected"
               /\ report_outcome' = "running"
               /\ UNCHANGED report_runs
    /\ UNCHANGED <<moreVars, ctlVars, dbVars, appVars, report_limit, store_file_exists, today,
                   views, exports, completed_exports>>

\* lines 26-38, called at line 122
load_memberships ==
    /\ report_step = "connected"
    /\ store' = IF memberships_csv
                   THEN ReplaceTable(store, N_memberships, MembershipsCsv)  \* lines 33-37
                   ELSE store                                               \* line 30
    /\ report_step' = "loaded"
    /\ UNCHANGED <<moreVars, ctlVars, dbRest, appVars, report_limit, store_file_exists, today,
                   clock, views, exports, report_runs, report_outcome,
                   completed_exports>>

\* lines 40-90, called at line 123
configure_views ==
    /\ report_step = "loaded"
    /\ views' = views \cup ViewsDefined(store)
    /\ IF V_reporting \in ViewsDefined(store)
          THEN /\ report_step' = "configured"
               /\ UNCHANGED <<report_runs, report_outcome>>
          ELSE /\ report_step' = "idle"            \* a statement raised
               /\ report_outcome' = "failed"
               /\ report_runs' = report_runs + 1
    /\ UNCHANGED <<moreVars, ctlVars, dbVars, appVars, report_limit, store_file_exists, today,
                   clock, exports, completed_exports>>

\* lines 92-106, called at line 124: the two COPY statements; parquet_ok and
\* csv_ok tell whether the file could be written.
export_data(parquet_ok, csv_ok) ==
    /\ report_step = "configured"
    /\ LET content == reporting_data(store, clock)
           fs1 == WriteFile(exports, ExportName(today, "parquet"), content)
           fs2 == WriteFile(fs1, ExportName(today, "csv"), content)
       IN  /\ exports' = IF ~parquet_ok THEN exports
                         ELSE IF ~csv_ok THEN fs1
                         ELSE fs2
           /\ report_outcome' = IF parquet_ok /\ csv_ok THEN "completed" ELSE "failed"
           /\ completed_exports' = IF parquet_ok /\ csv_ok
                                      THEN Append(completed_exports, <<today, clock>>)
                                      ELSE completed_exports
    /\ report_step' = "idle"
    /\ report_runs' = report_runs + 1
    /\ UNCHANGED <<moreVars, ctlVars, dbVars, appVars, report_limit, store_file_exists, today,
                   clock, views>>

\* midnight passes between two runs
DayPasses ==
    /\ report_step = "idle"
    /\ report_runs < report_limit
    /\ today < MaxDays
    /\ today' = today + 1
    /\ UNCHANGED <<moreVars, ctlVars, dbVars, appVars, report_limit, store_file_exists, clock,
                   report_step, views, exports, report_runs, report_outcome,
                   completed_exports>>

\* the steps of one call of main()
NextReportRun ==
    \/ ReportStart
    \/ load_memberships
    \/ configure_views
    \/ \E parquet_ok, csv_ok \in BOOLEAN : export_data(parquet_ok, csv_ok)

NextReport ==
    \/ ReportStart
    \/ load_memberships
    \/ configure_views
    \/ \E parquet_ok, csv_ok \in BOOLEAN : export_data(parquet_ok, csv_ok)
    \/ DayPasses

(***************************************************************************)
(* Part IV.  The pipeline, master_app.py main(), and the way each stage    *)
(* script ends.                                                            *)
(***************************************************************************)
\* the scripts that run_step starts and waits for, lines 60, 63, 64, 76
S_simulation == "Scripts/run_simulation.py"
S_memberships == "Scripts/write_memberships.py"
S_prepare == "Scripts/prepare_duckdb.py"
S_processing == "Scripts/processing_data.py"

\* How a run of each script can go.
\*   run_simulation.py: a required environment value is missing (line 58
\*     raises), the enqueue call is not answered with Success (lines 193-195),
\*     the job ends Failed or Cancelled (line 218), the monitoring times out
\*     (line 224), or the solution is downloaded.
\*   write_memberships.py: reference.db cannot be attached (caught at line
\*     66), or the CSV is written; the file then goes on past line 73 to the
\*     license export, which raises when no session value is set or the
\*     request fails (lines 96, 114), and to the parquet tests, whose
\*     bare SystemExit (line 175) is exit code 0.
\*   prepare_duckdb.py: the model directory is missing (line 80), the store
\*     is locked (line 86), or the tables are built.
\*   processing_data.py: the store file is missing (line 114), or the
\*     snapshot is exported.
StageOutcomes(script) ==
    CASE script = S_simulation  -> {"missing_env", "enqueue_failed", "job_failed",
                                    "timeout", "completed"}
      [] script = S_memberships -> {"attach_failed", "license_failed", "completed"}
      [] script = S_prepare     -> {"missing_directory", "locked_store", "completed"}
      [] script = S_processing  -> {"missing_store", "completed"}

\* the outcomes in which the script raises an exception
Raises(outcome) ==
    outcome \in {"missing_env", "attach_failed", "license_failed",
                 "missing_directory", "locked_store", "missing_store"}

\* the fatal errors of the stage scripts
Fatal(outcome) == Raises(outcome) \/ outcome = "enqueue_failed"

\* prepare_duckdb.py lines 220-232 and processing_data.py lines 109-132 wrap
\* their work in try / except Exception and print, and so does
\* write_memberships.py lines 27-69 for its query, not for the calls after
\* line 73; run_simulation.py lines 266-267 calls main() bare.
CatchesExceptions(script, outcome) ==
    \/ script \in {S_prepare, S_processing}
    \/ script = S_memberships /\ outcome = "attach_failed"

\* the exit code of the python process: 1 for an uncaught exception, 0 when
\* the script runs to its end or main() returns
ExitCode(script, outcome) ==
    IF Raises(outcome) /\ ~CatchesExceptions(script, outcome) THEN 1 ELSE 0

\* master_app.py lines 60-76: the stage that main() starts at each position
StageAt(position) ==
    CASE position = "simulation"  -> S_simulation
      [] position = "memberships" -> S_memberships
      [] position = "prepare"     -> S_prepare
      [] position = "processing"  -> S_processing

\* master_app.py lines 60-76: where main() goes when the call returns
AfterStage(position) ==
    CASE position = "simulation"  -> "reference"
      [] position = "memberships" -> "prepare"
      [] position = "prepare"     -> "parquet"
      [] position = "processing"  -> "dashboard"

StagePositions == {"simulation", "memberships", "prepare", "processing"}

\* ".parquet" and the names of the entries of a solution folder
Ext_parquet == <<".", "p", "a", "r", "q", "u", "e", "t">>
N_sentinel == <<"p", "a", "r", "q", "u", "e", "t", "_", "r", "e", "a", "d", "y",
                ".", "d", "o", "n", "e">>

\* str.endswith
EndsWith(name, suffix) ==
    /\ Len(name) >= Len(suffix)
    /\ SubSeq(name, Len(name) - Len(suffix) + 1, Len(name)) = suffix

\* os.listdir of a solution folder of the documented convention: the table
\* subfolders, which hold the parquet files, and the sentinel
ConventionListing == <<N_Period, N_data, N_fullkeyinfo, N_unit, N_sentinel>>

\* what os.listdir(solution_path) may return at line 69: nothing, the
\* convention, parquet files beside the subfolders, parquet files only
SolutionListings ==
    { <<>>,
      ConventionListing,
      ConventionListing \o << N_data \o Ext_parquet >>,
      << N_data \o Ext_parquet, N_unit \o Ext_parquet >> }

\* the check has not been made
NoCheck == [made |-> FALSE, path_exists |-> FALSE, listing |-> <<>>]

\* lines 68-72
parquet_exists(path_exists, listing) ==
    IF path_exists
       THEN \E k \in DOMAIN listing : EndsWith(listing[k], Ext_parquet)
       ELSE FALSE

\* the stages that have ended when a call is made
StagesEnded == {stage_log[k].script : k \in DOMAIN stage_log}

InitApp ==
    /\ app_pc = "import"
    /\ stage_log = <<>>
    /\ app_exit = -1
    /\ uploads = <<>>
    /\ parquet_check = NoCheck

\* master_app.py lines 7-8: importing datahub_sync runs its line 114,
\* sync_datahub(APILogger), and importing datahub_upload runs its line 89,
\* upload_datahub(APILogger); both catch every exception.  cli_ok: the
\* cloud_cli_path is set and exists, so that line 74 of datahub_upload.py is
\* reached.
ImportModules(cli_ok) ==
    /\ app_pc = "import"
    /\ app_pc' = "main"
    /\ uploads' = Append(uploads, [position |-> app_pc, started |-> cli_ok,
                                   stages |-> StagesEnded, launched |-> FALSE])
    /\ UNCHANGED <<moreVars, ctlVars, dbVars, repVars, stage_log, app_exit, parquet_check>>

\* master_app.py lines 35-45 and 98-103: main() needs model_name
StartMain(model_name_set) ==
    /\ app_pc = "main"
    /\ IF model_name_set
          THEN /\ app_pc' = "sync"
               /\ UNCHANGED app_exit
          ELSE /\ app_pc' = "exited"                         \* line 45 raises
               /\ app_exit' = 1
    /\ UNCHANGED <<moreVars, ctlVars, dbVars, repVars, stage_log, uploads, parquet_check>>

\* master_app.py lines 53-58: a failed sync is logged, the pipeline goes on
SyncDatahub(ok) ==
    /\ app_pc = "sync"
    /\ app_pc' = "simulation"
    /\ UNCHANGED <<moreVars, ctlVars, dbVars, repVars, stage_log, app_exit, uploads,
                   parquet_check>>

\* master_app.py lines 14-24, run_step(command, name) with wait=True
run_step(outcome) ==
    /\ app_pc \in StagePositions
    /\ outcome \in StageOutcomes(StageAt(app_pc))
    /\ LET returncode == ExitCode(StageAt(app_pc), outcome)
       IN  /\ stage_log' = Append(stage_log, [script |-> StageAt(app_pc),
                                              outcome |-> outcome,
                                              returncode |-> returncode])
           /\ IF returncode # 0
                 THEN /\ app_pc' = "exited"                  \* line 23: sys.exit
                      /\ app_exit' = returncode
                 ELSE /\ app_pc' = AfterStage(app_pc)
                      /\ UNCHANGED app_exit
    /\ UNCHANGED <<moreVars, ctlVars, dbVars, repVars, uploads, parquet_check>>

\* master_app.py lines 30-33 and 61; the exception reaches lines 101-103
assert_file_exists(exists) ==
    /\ app_pc = "reference"
    /\ IF exists
          THEN /\ app_pc' = "memberships"
               /\ UNCHANGED app_exit
          ELSE /\ app_pc' = "exited"
               /\ app_exit' = 1
    /\ UNCHANGED <<moreVars, ctlVars, dbVars, repVars, stage_log, uploads, parquet_check>>

\* master_app.py lines 66-74: parquet files at the top of the solution
\* folder; path_exists and listing are what os.path.exists and os.listdir
\* return
ParquetCheck(path_exists, listing) ==
    /\ app_pc = "parquet"
    /\ parquet_check' = [made |-> TRUE, path_exists |-> path_exists,
                         listing |-> IF path_exists THEN listing ELSE <<>>]
    /\ IF parquet_exists(path_exists, listing)
          THEN /\ app_pc' = "processing"
               /\ UNCHANGED app_exit
          ELSE /\ app_pc' = "exited"                         \* line 74 raises
               /\ app_exit' = 1
    /\ UNCHANGED <<moreVars, ctlVars, dbVars, repVars, stage_log, uploads>>

\* master_app.py lines 79-87: run_step with wait=False; a failure is logged
LaunchDashboard(ok) ==
    /\ app_pc = "dashboard"
    /\ app_pc' = "upload"
    /\ UNCHANGED <<moreVars, ctlVars, dbVars, repVars, stage_log, app_exit, uploads,
                   parquet_check>>

\* master_app.py lines 90-96 and 98-103
UploadDatahub(ok) ==
    /\ app_pc = "upload"
    /\ app_pc' = "exited"
    /\ app_exit' = 0            \* datahub_upload.py lines 84-85 catch every failure
    /\ uploads' = Append(uploads, [position |-> app_pc, started |-> ok,
                                   stages |-> StagesEnded, launched |-> TRUE])
    /\ UNCHANGED <<moreVars, ctlVars, dbVars, repVars, stage_log, parquet_check>>

NextApp ==
    \/ \E cli_ok \in BOOLEAN : ImportModules(cli_ok)
    \/ \E model_name_set \in BOOLEAN : StartMain(model_name_set)
    \/ \E ok \in BOOLEAN : SyncDatahub(ok)
    \/ \E outcome \in UNION {StageOutcomes(StageAt(p)) : p \in StagePositions} :
          run_step(outcome)
    \/ \E exists \in BOOLEAN : assert_file_exists(exists)
    \/ \E path_exists \in BOOLEAN, listing \in SolutionListings :
          ParquetCheck(path_exists, listing)
    \/ \E ok \in BOOLEAN : LaunchDashboard(ok)
    \/ \E ok \in BOOLEAN : UploadDatahub(ok)

(***************************************************************************)
(* Part V.  The controller that master_app starts, run_simulation.py       *)
(* main().  Time is counted in poll sleeps; the timeout_limit of line 200  *)
(* is scaled to TimeoutLimit sleeps.                                       *)
(***************************************************************************)
InitSim ==
    /\ sim_pc = "start"
    /\ sim_enqueues = 0
    /\ sim_elapsed = 0
    /\ sim_status = "None"
    /\ sim_result = "none"

\* how main() leaves: "raised" is an uncaught exception, the others are
\* a return or the end of main()
SimEnds(result) ==
    /\ sim_pc' = "done"
    /\ sim_result' = result

\* lines 48-187: the environment, the study, payload.json
SimPrepare(env_ok, study_ok, payload_ok) ==
    /\ sim_pc = "start"
    /\ IF ~env_ok THEN SimEnds("raised")                    \* line 58
       ELSE IF ~study_ok THEN SimEnds("study_missing")      \* lines 114-120
       ELSE IF ~payload_ok THEN SimEnds("raised")           \* line 168
       ELSE /\ sim_pc' = "enqueue"
            /\ UNCHANGED sim_result
    /\ UNCHANGED <<simRest, ctlVars, dbVars, repVars, appVars, sim_enqueues, sim_elapsed,
                   sim_status>>

\* lines 190-202: the one enqueue call of the run
SimEnqueue(r) ==
    /\ sim_pc = "enqueue"
    /\ sim_enqueues' = sim_enqueues + 1
    /\ IF r = "Raises" THEN SimEnds("raised")               \* no try around line 190
       ELSE IF r \in {"NoFinalResponse", "NonSuccess"}
               THEN SimEnds("enqueue_failed")               \* lines 193-195
       ELSE IF r = "NoSimulationId" THEN SimEnds("raised")  \* line 197
       ELSE /\ sim_pc' = "monitor"
            /\ UNCHANGED sim_result
    /\ sim_elapsed' = 0                                     \* line 201
    /\ UNCHANGED <<simRest, ctlVars, dbVars, repVars, appVars, sim_status>>

\* lines 206-226: one turn of the monitoring loop
SimPoll(r) ==
    /\ sim_pc = "monitor"
    /\ sim_status' = r
    /\ IF r \in {"Raises", "NoEventData"}
          THEN /\ SimEnds("raised")                         \* lines 207, 211
               /\ UNCHANGED sim_elapsed
       ELSE IF r = "CompletedSuccess"
          THEN /\ sim_pc' = "lookup"                        \* lines 212-215
               /\ UNCHANGED <<sim_result, sim_elapsed>>
       ELSE IF EndsAttempt(r)
          THEN /\ SimEnds("job_failed")                     \* lines 216-218
               /\ UNCHANGED sim_elapsed
       ELSE IF TimedOut(sim_elapsed)
          THEN /\ SimEnds("timeout")                        \* lines 222-224, 263
               /\ UNCHANGED sim_elapsed
       ELSE /\ sim_elapsed' = sim_elapsed + 1               \* line 226
            /\ UNCHANGED <<sim_pc, sim_result>>
    /\ UNCHANGED <<simRest, ctlVars, dbVars, repVars, appVars, sim_enqueues>>

\* lines 228-239: get_solution_id
SimLookup(r) ==
    /\ sim_pc = "lookup"
    /\ IF r = "Raises" THEN SimEnds("raised")
       ELSE IF r = "Success"
          THEN /\ sim_pc' = "download"
               /\ UNCHANGED sim_result
       ELSE SimEnds("lookup_failed")                        \* lines 237-239
    /\ UNCHANGED <<simRest, ctlVars, dbVars, repVars, appVars, sim_enqueues, sim_elapsed,
                   sim_status>>

\* lines 241-261: download_solution, then the sentinel
SimDownload(r) ==
    /\ sim_pc = "download"
    /\ IF r = "Raises" THEN SimEnds("raised")
       ELSE IF r = "Success" THEN SimEnds("completed")
       ELSE SimEnds("download_failed")                      \* line 253, then 255-261
    /\ UNCHANGED <<simRest, ctlVars, dbVars, repVars, appVars, sim_enqueues, sim_elapsed,
                   sim_status>>

NextSim ==
    \/ \E env_ok, study_ok, payload_ok \in BOOLEAN :
          SimPrepare(env_ok, study_ok, payload_ok)
    \/ \E r \in EnqueueResponses : SimEnqueue(r)
    \/ \E r \in PollResponses : SimPoll(r)
    \/ \E r \in CallResponses : SimLookup(r)
    \/ \E r \in CallResponses : SimDownload(r)

(***************************************************************************)
(* Part VI.  The solution folder: "Model {name} Solution" as the           *)
(* controller, the materializer and master_app spell it.                   *)
(***************************************************************************)
\* re.sub(r'[<>:"/\\|?*]', "_", name): the characters that are replaced
UnsafeChars == {"<", ">", ":", "\"", "/", "\\", "|", "?", "*"}

\* run_simulation max retries.py lines 27-28 (run_simulation.py lines 29-30)
safe_filename(name) ==
    [k \in DOMAIN name |-> IF name[k] \in UnsafeChars THEN "_" ELSE name[k]]

\* f"Model {name} Solution"
SolutionFolder(name) ==
    <<"M", "o", "d", "e", "l", " ">> \o name
        \o <<" ", "S", "o", "l", "u", "t", "i", "o", "n">>

\* the characters a model name is made of here
NameChars == {"a", "_", ":", "/"}

\* the model names of up to MaxNameLen characters
ModelNames == SeqsUpTo(NameChars, MaxNameLen) \ {<<>>}

InitPath ==
    /\ model_name \in ModelNames
    /\ download_dir = <<>>
    /\ scan_dir = <<>>
    /\ check_dir = <<>>

\* run_simulation max retries.py lines 64-66: the folder the download goes to
ControllerFolder ==
    /\ download_dir = <<>>
    /\ download_dir' = SolutionFolder(safe_filename(model_name))
    /\ UNCHANGED <<pathRest, ctlVars, dbVars, repVars, appVars, model_name, scan_dir,
                   check_dir>>

\* prepare_duckdb.py line 78: the folder that is scanned
MaterializerFolder ==
    /\ scan_dir = <<>>
    /\ scan_dir' = SolutionFolder(model_name)
    /\ UNCHANGED <<pathRest, ctlVars, dbVars, repVars, appVars, model_name, download_dir,
                   check_dir>>

\* master_app.py lines 66-67: the folder that is checked for parquet files
AppFolder ==
    /\ check_dir = <<>>
    /\ check_dir' = SolutionFolder(model_name)
    /\ UNCHANGED <<pathRest, ctlVars, dbVars, repVars, appVars, model_name, download_dir,
                   scan_dir>>

NextPath ==
    \/ ControllerFolder
    \/ MaterializerFolder
    \/ AppFolder

(***************************************************************************)
(* Part VII.  Two processes that call prepare_duckdb with one store path.  *)
(* Each goes through the lock check of line 84, lines 88-103, and the      *)
(* connect of line 105; the steps of the two interleave.                   *)
(***************************************************************************)
Procs == {1, 2}

Other(p) == CHOOSE q \in Procs : q # p

\* the processes that have the store file open: psutil lists it among
\* their open files (line 50)
Holders == {p \in Procs : proc_pc[p] = "open"}

InitProcs ==
    /\ proc_pc = [p \in Procs |-> "start"]
    /\ proc_scans = [p \in Procs |-> 0]
    /\ proc_contended = {}
    /\ lock_enforced \in BOOLEAN

\* lines 74-84: the checks before is_file_locked is called
ProcStart(p) ==
    /\ proc_pc[p] = "start"
    /\ proc_pc' = [proc_pc EXCEPT ![p] = "scanning"]
    /\ UNCHANGED <<procRest, ctlVars, dbVars, repVars, appVars, proc_scans,
                   proc_contended, lock_enforced>>

\* lines 46-65 and 85-86: one turn of the loop of is_file_locked.  A scan
\* that finds no holder returns None; the scan number LockRetries that finds
\* one returns its PID and line 86 raises; else the process sleeps.
ProcScan(p) ==
    /\ proc_pc[p] = "scanning"
    /\ IF Other(p) \notin Holders
          THEN /\ proc_pc' = [proc_pc EXCEPT ![p] = "passed"]
               /\ UNCHANGED proc_scans
          ELSE /\ proc_scans' = [proc_scans EXCEPT ![p] = @ + 1]
               /\ proc_pc' = [proc_pc EXCEPT ![p] =
                                 IF LockedOut(is_file_locked(proc_scans'[p]))
                                    THEN "locked_out" ELSE "scanning"]
    /\ UNCHANGED <<procRest, ctlVars, dbVars, repVars, appVars, proc_contended,
                   lock_enforced>>

\* lines 88-105: makedirs, the directory walk, then duckdb.connect.  When
\* another process has the file open, connect raises an IO error if the
\* file lock of DuckDB works on this file system, and opens the file if not.
ProcConnect(p) ==
    /\ proc_pc[p] = "passed"
    /\ IF Other(p) \in Holders
          THEN /\ proc_contended' = proc_contended \cup {p}
               /\ proc_pc' = [proc_pc EXCEPT ![p] =
                                 IF lock_enforced THEN "io_error" ELSE "open"]
          ELSE /\ proc_pc' = [proc_pc EXCEPT ![p] = "open"]
               /\ UNCHANGED proc_contended
    /\ UNCHANGED <<procRest, ctlVars, dbVars, repVars, appVars, proc_scans, lock_enforced>>

\* lines 105-216: the with block ends, the connection is closed
ProcClose(p) ==
    /\ proc_pc[p] = "open"
    /\ proc_pc' = [proc_pc EXCEPT ![p] = "closed"]
    /\ UNCHANGED <<procRest, ctlVars, dbVars, repVars, appVars, proc_scans,
                   proc_contended, lock_enforced>>

NextProcs ==
    \/ \E p \in Procs : ProcStart(p)
    \/ \E p \in Procs : ProcScan(p)
    \/ \E p \in Procs : ProcConnect(p)
    \/ \E p \in Procs : ProcClose(p)

(***************************************************************************)
(* Part VIII.  run_with_timeout(func, timeout), datahub_sync.py lines      *)
(* 20-41: the caller and the wrapper thread.  func returns a value, raises *)
(* an Exception, or goes on running.                                       *)
(***************************************************************************)
\* what func may return: None or data
FuncValues == {"None", "data"}

NoOutcome == [kind |-> "none", value |-> "None", at |-> -1]

InitWait ==
    /\ rt_pc = "idle"
    /\ rt_timeout \in 1..MaxWait
    /\ rt_clock = 0
    /\ rt_thread = "none"
    /\ rt_cells = [result |-> "None", exc |-> "None"]
    /\ rt_finished_at = -1
    /\ rt_outcome = NoOutcome

\* lines 24-35: the cells, thread.start(), and the caller enters join
RtStart ==
    /\ rt_pc = "idle"
    /\ rt_pc' = "joining"
    /\ rt_thread' = "running"
    /\ rt_cells' = [result |-> "None", exc |-> "None"]
    /\ UNCHANGED <<waitRest, ctlVars, dbVars, repVars, appVars, rt_timeout, rt_clock,
                   rt_finished_at, rt_outcome>>

\* line 29: func returns v, the wrapper stores it and the thread ends
FuncReturns(v) ==
    /\ rt_thread = "running"
    /\ rt_thread' = "returned"
    /\ rt_cells' = [rt_cells EXCEPT !.result = v]
    /\ rt_finished_at' = rt_clock
    /\ UNCHANGED <<waitRest, ctlVars, dbVars, repVars, appVars, rt_pc, rt_timeout,
                   rt_clock, rt_outcome>>

\* lines 30-31: func raises, the wrapper stores the exception and the thread
\* ends
FuncRaises ==
    /\ rt_thread = "running"
    /\ rt_thread' = "raised"
    /\ rt_cells' = [rt_cells EXCEPT !.exc = "error"]
    /\ rt_finished_at' = rt_clock
    /\ UNCHANGED <<waitRest, ctlVars, dbVars, repVars, appVars, rt_pc, rt_timeout,
                   rt_clock, rt_outcome>>

\* Time passes while func runs.  It does not pass for a caller whose join
\* can return, nor between the return of join and line 37.
Tick ==
    /\ rt_thread = "running"
    /\ rt_clock <= rt_timeout
    /\ rt_pc = "joining" => rt_clock < rt_timeout
    /\ rt_pc # "joined"
    /\ rt_clock' = rt_clock + 1
    /\ UNCHANGED <<waitRest, ctlVars, dbVars, repVars, appVars, rt_pc, rt_timeout,
                   rt_thread, rt_cells, rt_finished_at, rt_outcome>>

\* line 35: thread.join(timeout) returns when the thread has ended or the
\* timeout has passed
JoinReturns ==
    /\ rt_pc = "joining"
    /\ rt_thread # "running" \/ rt_clock >= rt_timeout
    /\ rt_pc' = "joined"
    /\ UNCHANGED <<waitRest, ctlVars, dbVars, repVars, appVars, rt_timeout, rt_clock,
                   rt_thread, rt_cells, rt_finished_at, rt_outcome>>

\* mutant: the thread is never found alive
NeverAlive(thread) == FALSE

\* line 37: thread.is_alive()
is_alive(thread) == thread = "running"

\* lines 37-41: TimeoutError, the stored exception, or the stored result
RtUnblocks ==
    /\ rt_pc = "joined"
    /\ rt_pc' = "done"
    /\ rt_outcome' =
          IF is_alive(rt_thread)
             THEN [kind |-> "TimeoutError", value |-> "None", at |-> rt_clock]
          ELSE IF rt_cells.exc # "None"
             THEN [kind |-> "raised", value |-> rt_cells.exc, at |-> rt_clock]
          ELSE [kind |-> "returned", value |-> rt_cells.result, at |-> rt_clock]
    /\ UNCHANGED <<waitRest, ctlVars, dbVars, repVars, appVars, rt_timeout, rt_clock,
                   rt_thread, rt_cells, rt_finished_at>>

NextWait ==
    \/ RtStart
    \/ \E v \in FuncValues : FuncReturns(v)
    \/ FuncRaises
    \/ Tick
    \/ JoinReturns
    \/ RtUnblocks

(***************************************************************************)
(* Specifications.                                                         *)
(***************************************************************************)
\* Part II at rest, in the specifications of Part I
DbQuiet ==
    /\ InitDbWith({[d \in DirUniverse |-> NoFiles]}, 0)
    /\ ~model_directory_exists
    /\ ~memberships_csv

\* Part I at rest, in the specifications of Part II
CtlQuiet == InitCtl /\ MAX_ENQUEUE_RETRIES = 0

\* Part III at rest
RepQuiet == InitRepWith(0) /\ ~store_file_exists

\* Part IV at rest
AppQuiet == InitApp

\* Part V at rest
SimQuiet == InitSim

\* Part VI at rest
PathQuiet == InitPath /\ model_name = <<"a">>

\* Part VII at rest
ProcsQuiet == InitProcs /\ lock_enforced

\* Part VIII at rest
WaitQuiet == InitWait /\ rt_timeout = 1

\* the parts after Part IV at rest
MoreQuiet == SimQuiet /\ PathQuiet /\ ProcsQuiet /\ WaitQuiet

InitCtlSpec == InitCtl /\ DbQuiet /\ RepQuiet /\ AppQuiet /\ MoreQuiet

SpecCtl == InitCtlSpec /\ [][NextCtl]_vars

\* main() is one sequential thread: whenever it can take a step it does.
FairSpecCtl == SpecCtl /\ WF_vars(NextCtl)

\* The solution directory whose four subdirectories hold these data.
Source(period, data, unit, key) ==
    [d \in DirUniverse |->
        CASE d = <<N_Period>>      -> period
          [] d = <<N_data>>        -> data
          [] d = <<N_unit>>        -> unit
          [] d = <<N_fullkeyinfo>> -> key
          [] OTHER                 -> NoFiles]

\* Source directories with few variants of each subdirectory's data.
FewSources ==
    { Source(period, data, unit, key) :
        period \in PeriodContents \ {NoFiles},
        data \in DataContents \ {NoFiles},
        unit \in {Unreadable, Parquet({"UnitId"}, << [UnitId |-> "1"] >>),
                  Parquet({"UnitId", "UnitName"},
                          << [UnitId |-> "1", UnitName |-> "TJ"] >>)},
        key \in {Unreadable, Parquet({"SeriesId"}, << [SeriesId |-> 1] >>),
                 Parquet({"SeriesId", "UnitId"}, KeyRows(<<"1", "1">>))} }

\* Source directories with every unit and fullkeyinfo data of the bounds.
JoinSources ==
    { Source(period, data, unit, key) :
        period \in PeriodContents \ {NoFiles},
        data \in DataContents \ {NoFiles, Unreadable},
        unit \in UnitContents,
        key \in KeyContents }

\* prepare_duckdb called up to MaxRuns times on the source directories of
\* FewSources
InitDb == CtlQuiet /\ RepQuiet /\ AppQuiet /\ MoreQuiet /\ InitDbWith(FewSources, MaxRuns)

SpecDb == InitDb /\ [][NextDb]_vars

\* prepare_duckdb called once on the source directories of JoinSources
InitJoin == CtlQuiet /\ RepQuiet /\ AppQuiet /\ MoreQuiet /\ InitDbWith(JoinSources, 1)

SpecJoin == InitJoin /\ [][NextRun]_vars

\* Source directories with directories outside the convention: each of them
\* holds parquet files or not.
TreeSources ==
    { [d \in DirUniverse |-> IF d \in ExtraDirs THEN extra[d] ELSE base[d]] :
        base \in { Source(period, data, unit, key) :
                     period \in PeriodContents \ {NoFiles},
                     data \in DataContents \ {NoFiles, Unreadable},
                     unit \in {Parquet({"UnitId", "UnitName"},
                                       << [UnitId |-> "1", UnitName |-> "TJ"] >>)},
                     key \in {Parquet({"SeriesId", "UnitId"}, KeyRows(<<"1">>))} },
        extra \in { e \in [ExtraDirs -> UNION {ExtraContents(d) : d \in ExtraDirs}] :
                      \A d \in ExtraDirs : e[d] \in ExtraContents(d) } }

\* prepare_duckdb called once on the source directories of TreeSources
InitTree == CtlQuiet /\ RepQuiet /\ AppQuiet /\ MoreQuiet /\ InitDbWith(TreeSources, 1)

SpecTree == InitTree /\ [][NextRun]_vars

\* The store as earlier runs of prepare_duckdb left it, for the reporting
\* pipeline: fullkeyinfo, data and Period with these rows, memberships or not.
ReportStore(keys, data, memberships) ==
    [t \in TableNames |->
        CASE t = StoreKey(N_fullkeyinfo) -> Table(KeyColumns, keys)
          [] t = StoreKey(N_data)        -> Table(DataColumns, data)
          [] t = StoreKey(N_period)      -> Table(PeriodColumns, ReportPeriodRows)
          [] t = StoreKey(N_memberships) -> memberships
          [] OTHER                       -> NoTable]

\* two series of generator G1 and one of G2; the rows 5 and 7 of data fall on
\* one tuple of the grouping columns, the row 3 on another
FewStores ==
    { ReportStore(ReportKeyRows(<< <<"Generation", "G1">>, <<"Generation", "G1">>,
                                   <<"Generation", "G2">> >>),
                  ReportDataRows(<< <<1, 1>>, <<2, 1>>, <<3, 1>> >>),
                  memberships) :
        memberships \in {NoTable, MembershipsCsv} }

\* stores with every fullkeyinfo of MaxReportKeys series and every data of
\* up to MaxDataRows rows on the first two series and the two periods
AggregateStores ==
    { ReportStore(ReportKeyRows(variants), ReportDataRows(cells), MembershipsCsv) :
        variants \in [1..MaxReportKeys -> KeyVariants],
        cells \in SeqsUpTo((1..2) \X (1..2), MaxDataRows) }

\* rows of memberships_data.csv as write_memberships.py writes them: a
\* generator is the child of its region and of its node, and an object of
\* another class may have the name of a generator
MemberRows ==
    { [parent_class |-> "Region", child_class |-> "Generator",
       collection |-> "Generators", parent_object |-> "R1",
       child_object |-> "G1", subcollection_name |-> ""],
      [parent_class |-> "Node", child_class |-> "Generator",
       collection |-> "Generators", parent_object |-> "N1",
       child_object |-> "G1", subcollection_name |-> ""],
      [parent_class |-> "Region", child_class |-> "Battery",
       collection |-> "Batteries", parent_object |-> "R1",
       child_object |-> "G2", subcollection_name |-> ""] }

\* Period tables: any of the rows of ReportPeriodRows, PeriodId is a key
PeriodTables ==
    { SelectSeq(ReportPeriodRows, LAMBDA p : p.PeriodId \in ids) : ids \in SUBSET {1, 2} }

\* The store as earlier runs of prepare_duckdb left it: generators G1 and
\* G2 with one series each, two rows of data on any series and period, any
\* Period table and any memberships of up to MaxMemberRows rows.
EnrichStores ==
    { [ReportStore(ReportKeyRows(<< <<"Generation", "G1">>, <<"Generation", "G2">> >>),
                   ReportDataRows(cells),
                   Table(MembershipsCsv.cols, members))
          EXCEPT ![StoreKey(N_period)] = Table(PeriodColumns, periods)] :
        cells \in [1..2 -> (1..2) \X (1..2)],
        members \in SeqsUpTo(MemberRows, MaxMemberRows),
        periods \in PeriodTables }

\* the state before the reporting pipeline runs on one of stores
InitReportWith(stores, limit) ==
    /\ CtlQuiet
    /\ AppQuiet
    /\ MoreQuiet
    /\ InitRepWith(limit)
    /\ model_directory_exists = TRUE
    /\ files = [d \in DirUniverse |-> NoFiles]
    /\ memberships_csv \in BOOLEAN
    /\ store \in IF store_file_exists THEN stores ELSE {EmptyStore}
    /\ step = "idle"
    /\ item_index = 0
    /\ fullkeyinfo_path = <<>>
    /\ created_objects = <<>>
    /\ lock_pid = "None"
    /\ failed_tables = <<>>
    /\ run_limit = 0
    /\ runs = 0
    /\ aborted = 0
    /\ fullkeyinfo_mode = "none"
    /\ after_run = <<>>

\* processing_data.py run up to MaxReportRuns times on up to MaxDays days
InitReport == InitReportWith(FewStores, MaxReportRuns)

SpecReport == InitReport /\ [][NextReport]_vars

\* processing_data.py run once on every store of the bounds
InitAggregate == InitReportWith(AggregateStores, 1) /\ memberships_csv

SpecAggregate == InitAggregate /\ [][NextReportRun]_vars

\* run_simulation.py run once, in an environment that sets
\* MAX_ENQUEUE_RETRIES for the retry controller
InitSimSpec ==
    InitCtl /\ DbQuiet /\ RepQuiet /\ AppQuiet /\ PathQuiet /\ ProcsQuiet /\ WaitQuiet
        /\ InitSim

\* the three scripts started with any model name
InitPathSpec ==
    CtlQuiet /\ DbQuiet /\ RepQuiet /\ AppQuiet /\ SimQuiet /\ ProcsQuiet /\ WaitQuiet
        /\ InitPath

\* two processes started at any time
InitProcsSpec ==
    CtlQuiet /\ DbQuiet /\ RepQuiet /\ AppQuiet /\ SimQuiet /\ PathQuiet /\ WaitQuiet
        /\ InitProcs

SpecProcs == InitProcsSpec /\ [][NextProcs]_vars

\* one call of run_with_timeout with any timeout
InitWaitSpec ==
    CtlQuiet /\ DbQuiet /\ RepQuiet /\ AppQuiet /\ SimQuiet /\ PathQuiet /\ ProcsQuiet
        /\ InitWait

SpecWait == InitWaitSpec /\ [][NextWait]_vars

SpecPath == InitPathSpec /\ [][NextPath]_vars

SpecSim == InitSimSpec /\ [][NextSim]_vars

\* processing_data.py run once on every store of EnrichStores; the CSV is
\* gone, so that the memberships of the store are those the views read
InitEnrich == InitReportWith(EnrichStores, 1) /\ ~memberships_csv

SpecEnrich == InitEnrich /\ [][NextReportRun]_vars

\* master_app.py run once
InitAppSpec == CtlQuiet /\ DbQuiet /\ RepQuiet /\ MoreQuiet /\ InitApp

SpecApp == InitAppSpec /\ [][NextApp]_vars

(***************************************************************************)
(* Part I.  Properties of the retry controller.                            *)
(***************************************************************************)
RetryOutcomes == {"Failed", "Cancelled"}

LastOutcome == IF outcomes = <<>> THEN "None" ELSE outcomes[Len(outcomes)]

\* positions of the attempts that did not end in Failed or Cancelled
NonRetryPositions == {i \in 1..Len(outcomes) : outcomes[i] \notin RetryOutcomes}

FirstNonRetry == CHOOSE k \in NonRetryPositions : \A j \in NonRetryPositions : k <= j

Min(a, b) == IF a <= b THEN a ELSE b

\* C1: for MAX_ENQUEUE_RETRIES = N >= 1 the number of enqueue calls never
\* exceeds N, and a finished run has issued exactly min(N, k) of them, k being
\* the position of the first attempt that did not end in Failed or Cancelled
\* (N itself when every attempt ended in Failed or Cancelled).
C1_EnqueueCount ==
    MAX_ENQUEUE_RETRIES >= 1 =>
        /\ enqueues <= MAX_ENQUEUE_RETRIES
        /\ Terminated =>
              /\ Len(outcomes) = enqueues
              /\ enqueues = IF NonRetryPositions = {}
                               THEN MAX_ENQUEUE_RETRIES
                               ELSE Min(MAX_ENQUEUE_RETRIES, FirstNonRetry)

\* a run whose second attempt timed out while a third attempt was allowed
C1_Witness ==
    /\ Terminated
    /\ MAX_ENQUEUE_RETRIES = 3
    /\ outcomes = <<"Failed", "Timeout">>
    /\ enqueues = 2

AfterTimeoutStep ==
    LastOutcome = "Timeout" =>
        /\ enqueues' = enqueues
        /\ polls' = polls
        /\ lookups' = 0
        /\ downloads' = 0
        /\ ~sentinel'

\* C2: once an attempt's polling loop has ended by the monitoring timeout, no
\* step of the run enqueues again, looks a solution up, downloads or writes
\* the sentinel.
C2_TimeoutIsFinal ==
    [][AfterTimeoutStep]_vars

\* a run that timed out in its first attempt with attempts left, and ended
C2_Witness ==
    /\ Terminated
    /\ LastOutcome = "Timeout"
    /\ attempt < MAX_ENQUEUE_RETRIES
    /\ lastPoll \in NonTerminalStatuses

AfterEnqueueFailureStep ==
    lastEnqueue \in {"Raises", "NoFinalResponse", "NonSuccess"} =>
        /\ Terminated'
        /\ polls' = polls
        /\ enqueues' = enqueues
        /\ lookups' = 0
        /\ downloads' = 0
        /\ ~sentinel'

\* C3: once an enqueue call has raised, returned no final response or
\* returned a non-Success status, nothing more happens in the run: no poll,
\* no enqueue, no solution lookup, no download, no sentinel.
C3_EnqueueFailureStops ==
    [][AfterEnqueueFailureStep]_vars

\* the second enqueue of a run returned a non-Success response
C3_Witness ==
    /\ lastEnqueue = "NonSuccess"
    /\ enqueues = 2
    /\ attempt < MAX_ENQUEUE_RETRIES
    /\ pc = "done"

\* number of attempts below MAX_ENQUEUE_RETRIES among the first n that ended
\* in Failed or Cancelled
RetryableBelowMax(n) ==
    Cardinality({i \in 1..n : outcomes[i] \in RetryOutcomes /\ i < MAX_ENQUEUE_RETRIES})

\* C4: every attempt that ended in Failed or Cancelled below MAX_ENQUEUE_RETRIES
\* was followed by exactly one retry wait and then exactly one new enqueue; an
\* attempt that ended so at MAX_ENQUEUE_RETRIES was followed by neither, and
\* the run ends unsuccessful with nothing looked up, downloaded or flagged.
C4_RetryOrExhaust ==
    /\ retrySleeps =
          IF pc = "classify" THEN RetryableBelowMax(Len(outcomes) - 1)
                             ELSE RetryableBelowMax(Len(outcomes))
    /\ \/ enqueues = 0 /\ retrySleeps = 0
       \/ enqueues = (IF pc \in {"loop", "enqueue"} /\ ~simulation_successful
                         THEN retrySleeps
                         ELSE retrySleeps + 1)
    /\ (LastOutcome \in RetryOutcomes /\ pc \in {"post", "done", "crashed"}) =>
          /\ attempt = MAX_ENQUEUE_RETRIES
          /\ enqueues = MAX_ENQUEUE_RETRIES
          /\ ~simulation_successful
          /\ lookups = 0 /\ downloads = 0 /\ ~sentinel

\* two attempts allowed: the first failed and was retried after one wait, the
\* second was cancelled and ended the run
C4_Witness ==
    /\ pc = "done"
    /\ MAX_ENQUEUE_RETRIES = 2
    /\ outcomes = <<"Failed", "Cancelled">>
    /\ retrySleeps = 1
    /\ enqueues = 2

\* C5: a solution lookup, a download or a sentinel write happens only in a run
\* in which the last poll, of the most recently enqueued job, returned
\* CompletedSuccess; runs that end by exhausted retries, timeout or enqueue
\* failure do none of the three.
C5_DownloadOnlyAfterSuccess ==
    /\ (lookups > 0 \/ downloads > 0 \/ sentinel) =>
          /\ lastPoll = "CompletedSuccess"
          /\ polledJob = enqueues
          /\ lastEnqueue = "Success"
    /\ LastOutcome \in RetryOutcomes \cup {"Timeout", "EnqueueFailed", "Malformed", "Crashed"} =>
          /\ lookups = 0
          /\ downloads = 0
          /\ ~sentinel

\* the second attempt succeeded and the run downloaded and wrote the sentinel
C5_Witness ==
    /\ sentinel
    /\ downloads = 1
    /\ lookups = 1
    /\ outcomes = <<"Cancelled", "Success">>

FailedPollResponses == {"Raises", "NoFinalResponse", "NonSuccess"}

FailedPollStep ==
    (polls' = polls + 1 /\ lastPoll' \in FailedPollResponses) =>
        /\ polledJob' = simulation_id
        /\ enqueues' = enqueues
        /\ retrySleeps' = retrySleeps
        /\ \/ /\ pc' = "poll"
              /\ simulation_id' = simulation_id
              /\ outcomes' = outcomes
           \/ /\ elapsed' > TimeoutLimit
              /\ outcomes' = Append(outcomes, "Timeout")

\* C6: a poll that raises or returns a non-Success response polls the job of
\* the current attempt and either leaves the controller polling that same job
\* (no enqueue, attempt not ended) or ends the attempt because the monitoring
\* timeout has elapsed.
C6_PollFailureKeepsPolling ==
    [][FailedPollStep]_vars

\* after a poll that raised, the controller is polling the same job again
C6_Witness ==
    /\ pc = "poll"
    /\ lastPoll = "Raises"
    /\ polls = 2
    /\ polledJob = simulation_id
    /\ Len(outcomes) = 0

AfterUnknownStatusStep ==
    lastPoll = UnknownStatus => (polls' = polls /\ enqueues' = enqueues)

\* C7 (as claimed): after a poll that reported a status outside the known
\* set, the run issues no further poll and no further enqueue.
C7_UnknownStatusStops ==
    [][AfterUnknownStatusStep]_vars

\* C8: the number of attempts started never exceeds MAX_ENQUEUE_RETRIES, and
\* every run of main() reaches its end (return or uncaught exception).
C8_Terminates ==
    /\ [](attempt <= MAX_ENQUEUE_RETRIES)
    /\ <>Terminated

\* a run that used every attempt and polled until the timeout in the last one
C8_Witness ==
    /\ Terminated
    /\ MAX_ENQUEUE_RETRIES = 3
    /\ outcomes = <<"Failed", "Cancelled", "Timeout">>
    /\ elapsed > TimeoutLimit

(***************************************************************************)
(* Part II.  Properties of the materializer.                               *)
(***************************************************************************)
\* C9: when prepare_duckdb returns twice in a row with no change of the source
\* directory (and of the memberships CSV) in between, the store has the same
\* tables with the same row counts after the second run as after the first.
C9_RerunIdempotent ==
    \A k \in 2..Len(after_run) :
        (after_run[k] # SourceChanged /\ after_run[k - 1] # SourceChanged) =>
            after_run[k] = after_run[k - 1]

\* the unit directory lost its files after the first run; the next two runs
\* joined fullkeyinfo with the unit table left in the store and loaded the CSV
C9_Witness ==
    /\ Len(after_run) = 4
    /\ after_run[2] = SourceChanged
    /\ files[<<N_unit>>] = NoFiles
    /\ fullkeyinfo_mode = "joined"
    /\ after_run[4][StoreKey(N_fullkeyinfo)] = 2
    /\ after_run[4][StoreKey(N_memberships)] = 1
    /\ after_run[4][StoreKey(N_fullkeyinfo_base)] = -1

\* The inputs and the result of the fullkeyinfo step, right after it.
Staging == read_parquet(files, <<N_fullkeyinfo>>)
UnitTable == store[StoreKey(N_unit)]
Final == store[StoreKey(N_fullkeyinfo)]

\* the case of C10: fullkeyinfo has just been built from a staging table with
\* a UnitId column while unit has the columns UnitId and UnitName
JoinCase ==
    /\ step = "memberships"
    /\ fullkeyinfo_path # <<>>
    /\ Staging.kind = "ok"
    /\ "UnitId" \in Staging.cols
    /\ UnitTable.exists
    /\ {"UnitId", "UnitName"} \subseteq UnitTable.cols

\* the unit rows that match staging row i on UnitId
Matches(i) ==
    {j \in DOMAIN UnitTable.rows :
        /\ Staging.rows[i].UnitId # NULL
        /\ UnitTable.rows[j].UnitId = Staging.rows[i].UnitId}

WithName(row, name) == [c \in DOMAIN row \cup {"UnitName"} |->
                           IF c = "UnitName" THEN name ELSE row[c]]

\* C10 (as claimed): the final fullkeyinfo table has exactly as many rows as
\* the staging table, and each row carries the UnitName of a unit row with the
\* same UnitId, or NULL when no unit row matches.
C10_SameRowCount ==
    JoinCase =>
        /\ Final.exists
        /\ Len(Final.rows) = Len(Staging.rows)
        /\ \A k \in DOMAIN Final.rows :
              \E i \in DOMAIN Staging.rows :
                  \/ /\ Matches(i) = {}
                     /\ Final.rows[k] = WithName(Staging.rows[i], NULL)
                  \/ \E j \in Matches(i) :
                        Final.rows[k] = WithName(Staging.rows[i], UnitTable.rows[j].UnitName)

\* C10 (amended): the final fullkeyinfo table holds every staging row once for
\* each unit row with the same (non-NULL) UnitId, carrying that row's UnitName,
\* and once with a NULL UnitName when no unit row matches; it has at least as
\* many rows as the staging table, and exactly as many when no two unit rows
\* share a UnitId.
C10_LeftJoinRows ==
    JoinCase =>
        /\ Final.exists
        /\ Final.cols = Staging.cols \cup {"UnitName"}
        /\ Len(Final.rows) =
              Cardinality({p \in (DOMAIN Staging.rows) \X (DOMAIN UnitTable.rows) :
                             p[2] \in Matches(p[1])})
                + Cardinality({i \in DOMAIN Staging.rows : Matches(i) = {}})
        /\ Len(Final.rows) >= Len(Staging.rows)
        /\ (\A i \in DOMAIN Staging.rows : Cardinality(Matches(i)) <= 1) =>
              Len(Final.rows) = Len(Staging.rows)
        /\ \A i \in DOMAIN Staging.rows :
              /\ Matches(i) = {} =>
                    WithName(Staging.rows[i], NULL) \in Range(Final.rows)
              /\ \A j \in Matches(i) :
                    WithName(Staging.rows[i], UnitTable.rows[j].UnitName) \in Range(Final.rows)
        /\ \A k \in DOMAIN Final.rows :
              \E i \in DOMAIN Staging.rows :
                  \/ /\ Matches(i) = {}
                     /\ Final.rows[k] = WithName(Staging.rows[i], NULL)
                  \/ \E j \in Matches(i) :
                        Final.rows[k] = WithName(Staging.rows[i], UnitTable.rows[j].UnitName)

\* two unit rows share UnitId 1: the staging row with UnitId 1 appears twice,
\* the staging row without a match once with a NULL UnitName
C10_Witness ==
    /\ JoinCase
    /\ Len(Staging.rows) = 2
    /\ Len(Final.rows) = 3
    /\ \E k \in DOMAIN Final.rows : Final.rows[k].UnitName = NULL
    /\ \E k \in DOMAIN Final.rows : Final.rows[k].UnitName = "GJ"

\* a call of prepare_duckdb in which is_file_locked returned a PID
LockedStart ==
    /\ step = "idle"
    /\ lock_pid' = "pid"
    /\ (aborted' # aborted \/ step' # step)

LockedStartStep ==
    LockedStart =>
        /\ aborted' = aborted + 1
        /\ step' = "idle"
        /\ store' = store
        /\ created_objects' = created_objects

\* C11: a call of prepare_duckdb in which every scan of the lock check found
\* the store file held by another process raises at once and leaves every
\* table of the store as it was; no step of the loop, of the fullkeyinfo
\* build or of the memberships load runs in such a call.
C11_LockedStoreUntouched ==
    /\ [][LockedStartStep]_vars
    /\ [](lock_pid = "pid" => step = "idle")

\* a first call filled the store, a second call found the store locked
C11_Witness ==
    /\ lock_pid = "pid"
    /\ aborted = 1
    /\ runs = 1
    /\ step = "idle"
    /\ store[StoreKey(N_unit)].exists
    /\ Summary(store) = after_run[Len(after_run)]

\* the directories whose parquet files load and whose table name is usable
Loadable(dir) ==
    /\ read_parquet(files, dir).kind = "ok"
    /\ base_name(dir) # N_fullkeyinfo
    /\ ValidIdentifier(table_name(dir))

\* no other directory with parquet files has the table name of dir
OwnName(dir) ==
    \A other \in DirUniverse \ {dir} :
        read_parquet(files, other).kind # "none" =>
            StoreKey(table_name(other)) # StoreKey(table_name(dir))

\* C12: when the loop over the directories has ended, however many table
\* creations failed in it, every directory with loadable parquet files has
\* had its table created (and the table is there, unless another directory
\* has the same table name); the fullkeyinfo step then runs (it builds the table
\* whenever the fullkeyinfo directory holds files that load), and the run
\* ends with the memberships load.
C12_FailureDoesNotStopRun ==
    /\ ((step = "walk" /\ item_index > Len(find_subdirectories))
            \/ step = "memberships") =>
          \A dir \in DirUniverse :
              Loadable(dir) =>
                  /\ table_name(dir) \in Range(created_objects)
                  /\ OwnName(dir) => store[StoreKey(table_name(dir))].exists
    /\ step = "memberships" =>
          /\ fullkeyinfo_mode # "none"
          /\ (read_parquet(files, <<N_fullkeyinfo>>).kind # "none" =>
                 fullkeyinfo_mode \in {"joined", "copied", "failed"})
    /\ (step = "idle" /\ runs > 0 /\ after_run[Len(after_run)] # SourceChanged
            /\ memberships_csv) =>
          store[StoreKey(N_memberships)].exists

\* the table of data failed; unit, after it in the list, was created,
\* fullkeyinfo was joined with it and memberships was loaded
C12_Witness ==
    /\ step = "idle"
    /\ runs = 1
    /\ failed_tables = <<N_data>>
    /\ created_objects = <<N_Period, N_unit, N_fullkeyinfo>>
    /\ fullkeyinfo_mode = "joined"
    /\ store[StoreKey(N_memberships)].exists

\* the Logical Tables of the source tree: one for every directory that holds
\* parquet files, and memberships when the side CSV is there
LogicalTables ==
    {StoreKey(table_name(d)) :
        d \in {x \in DirUniverse : /\ read_parquet(files, x).kind # "none"
                                   /\ base_name(x) # N_fullkeyinfo}}
      \cup (IF read_parquet(files, <<N_fullkeyinfo>>).kind # "none"
               THEN {StoreKey(N_fullkeyinfo)} ELSE {})
      \cup (IF memberships_csv THEN {StoreKey(N_memberships)} ELSE {})

\* prepare_duckdb has returned and the source tree is as that run read it
AfterCompletedRun ==
    /\ step = "idle"
    /\ runs > 0
    /\ after_run[Len(after_run)] # SourceChanged

\* C13 (as claimed): after a completed run the tables of the store are
\* exactly the Logical Tables of the source tree that the run read, with
\* memberships only if the CSV was loaded; no staging table and no table of a
\* directory that has lost its files remains.
C13_ExactTableSet ==
    AfterCompletedRun =>
        {t \in TableNames : store[t].exists} = LogicalTables

\* the directories that the loop of a run does not skip at line 116
WithFiles == {d \in DirUniverse : read_parquet(files, d).kind # "none"}

\* C14 (as claimed): within one run no two directories that hold parquet
\* files are mapped to the same table name, and no table is created twice.
C14_UniqueTableNames ==
    step # "idle" =>
        /\ \A d1, d2 \in WithFiles : d1 # d2 => table_name(d1) # table_name(d2)
        /\ \A i, j \in DOMAIN created_objects :
              i # j => created_objects[i] # created_objects[j]

(***************************************************************************)
(* Part III.  Properties of the reporting pipeline.                        *)
(***************************************************************************)
\* the sum of Value over the rows of the index set S
RECURSIVE SumOver(_, _)
SumOver(rows, S) ==
    IF S = {} THEN 0
    ELSE LET i == CHOOSE i \in S : TRUE
         IN  rows[i].Value + SumOver(rows, S \ {i})

\* the rows of the filtered join that share the grouping tuple of row i
SameTuple(rows, i) == {j \in DOMAIN rows : GroupKey(rows[j]) = GroupKey(rows[i])}

\* C15: once region_aggregate_totals is defined, it has exactly one row for
\* every tuple of the grouping columns that occurs in the filtered join, no
\* other row, and the TotalValue of that row is the sum of Value over the
\* rows of the filtered join with that tuple.
C15_AggregateIsSum ==
    V_totals \in views =>
        LET joined == regional_generation_capacity(store)
            totals == region_aggregate_totals(store)
        IN  /\ \A i \in DOMAIN joined :
                  \E a \in DOMAIN totals :
                      /\ GroupKey(totals[a]) = GroupKey(joined[i])
                      /\ totals[a].TotalValue = SumOver(joined, SameTuple(joined, i))
            /\ \A a, b \in DOMAIN totals :
                  GroupKey(totals[a]) = GroupKey(totals[b]) => a = b
            /\ \A a \in DOMAIN totals :
                  \E i \in DOMAIN joined : GroupKey(joined[i]) = GroupKey(totals[a])

\* the rows 5 and 7 share a tuple and give 12, the row 3 is on another
\* tuple and stays apart
C15_Witness ==
    /\ V_totals \in views
    /\ Len(regional_generation_capacity(store)) = 3
    /\ {<<t.ChildObjectName, t.TotalValue>> :
            t \in Range(region_aggregate_totals(store))} = {<<"G1", 12>>, <<"G2", 3>>}
    /\ Len(region_aggregate_totals(store)) = 2

\* the export files of a day with an extension
FilesOf(day, extension) ==
    {f \in exports : f.name[2] = day /\ f.name[Len(f.name)] = extension}

\* C16: however many times the export ran, no two files have the same name;
\* for every day on which an export completed there is exactly one parquet
\* file and one CSV file; and until the next run starts, both files of the
\* day of the last completed export hold the rows of that run.
C16_ExportOverwrites ==
    /\ \A f, g \in exports : f.name = g.name => f = g
    /\ \A k \in DOMAIN completed_exports :
          /\ Cardinality(FilesOf(completed_exports[k][1], "parquet")) = 1
          /\ Cardinality(FilesOf(completed_exports[k][1], "csv")) = 1
    /\ report_outcome = "completed" =>
          LET last == completed_exports[Len(completed_exports)]
          IN  \A extension \in {"parquet", "csv"} :
                  FilesOf(last[1], extension) =
                      {[name |-> ExportName(last[1], extension),
                        content |-> reporting_data(store, last[2])]}

\* three exports completed on the same day: the two files of the day hold
\* the rows of the third
C16_Witness ==
    /\ completed_exports = << <<1, 1>>, <<1, 2>>, <<1, 3>> >>
    /\ Cardinality(exports) = 2
    /\ \A f \in exports : /\ f.content # <<>>
                           /\ \A k \in DOMAIN f.content : f.content[k].SolutionDate = 3

ReportStoreStep ==
    (report_step' # report_step \/ report_runs' # report_runs) => store' = store

\* C17 (as claimed): no step of the reporting pipeline changes a table of the
\* store.
C17_StoreUnchanged ==
    [][ReportStoreStep]_vars

\* C18 (as claimed): after a reporting run that completed, the store file
\* holds none of the reporting views.
C18_NoViewPersists ==
    (report_step = "idle" /\ report_outcome = "completed") => views = {}

(***************************************************************************)
(* Part IV.  Properties of the pipeline.                                   *)
(***************************************************************************)
\* C19 (as claimed): a stage that met a fatal error returned a non-zero exit
\* code, is the last stage that was started, and master_app has exited.
C19_FatalErrorHalts ==
    \A k \in DOMAIN stage_log :
        Fatal(stage_log[k].outcome) =>
            /\ stage_log[k].returncode # 0
            /\ k = Len(stage_log)
            /\ app_pc = "exited"

\* C20 (as claimed): the sentinel is written only in a run whose download
\* returned Success.
C20_SentinelAfterDownload ==
    sentinel => downloadOk

(***************************************************************************)
(* Part V.  Properties of run_simulation.py.                               *)
(***************************************************************************)
\* C21 (as claimed): a run of run_simulation.py that ended on a Failed or
\* Cancelled job has used every attempt that the environment allows, it
\* enqueued again while attempts remained.
C21_RetriesWhileAttemptsRemain ==
    (sim_pc = "done" /\ sim_result = "job_failed")
        => sim_enqueues >= MAX_ENQUEUE_RETRIES

(***************************************************************************)
(* Part II.  Further properties of prepare_duckdb.                         *)
(***************************************************************************)
\* the loop of line 108 has gone through every directory
LoopDone == (step = "walk" /\ item_index > Len(find_subdirectories)) \/ step = "memberships"

Snapshot ==
    LET f == CHOOSE f \in exports : f.name = ExportName(today, "parquet")
    IN  f.content

Exported ==
    /\ report_step = "idle"
    /\ report_outcome = "completed"

HasPeriod(t) == \E p \in Range(store[StoreKey(N_period)].rows) : p.PeriodId = t.PeriodId

HasMembership(t) ==
    \E m \in Range(store[StoreKey(N_memberships)].rows) :
        m.child_object = t.ChildObjectName /\ m.child_class = t.ChildClassName

\* the aggregate rows have distinct totals here, so the total tells which
\* aggregate row a row of the snapshot comes from
RowsFrom(t) == {k \in DOMAIN Snapshot : Snapshot[k].TotalValue = t.TotalValue}

RECURSIVE SumTotals(_)
SumTotals(rows) ==
    IF rows = <<>> THEN 0 ELSE Head(rows).TotalValue + SumTotals(Tail(rows))

\* C30 (as claimed): the TotalValues of the exported reporting_data add up
\* to the Values of the filtered rows whose PeriodId is in Period.
C30_EnrichKeepsTotal ==
    Exported =>
        LET joined == regional_generation_capacity(store)
        IN  SumTotals(Snapshot)
                = SumOver(joined, {i \in DOMAIN joined : HasPeriod(joined[i])})

(***************************************************************************)
(* Part II.  The replace of one table.                                     *)
(***************************************************************************)
\* a step of the loop that failed to create a table leaves the table of
\* that name as it was, and so does a failed build of fullkeyinfo
FailedReplaceStep ==
    /\ (Len(failed_tables') = Len(failed_tables) + 1)
           => LET t == StoreKey(failed_tables'[Len(failed_tables')])
              IN  store'[t] = store[t]
    /\ (step = "walk" /\ step' = "memberships" /\ fullkeyinfo_mode' = "failed")
           => store'[StoreKey(N_fullkeyinfo)] = store[StoreKey(N_fullkeyinfo)]

\* C29 (as claimed): when the re-creation of a table fails, the store still
\* holds the table with the contents it had.
C29_ReplaceAllOrNothing ==
    [][FailedReplaceStep]_vars

(***************************************************************************)
(* Part IV.  Further properties of the pipeline.                           *)
(***************************************************************************)
\* C26 (as claimed): when the three stages before the check have ended with
\* code 0 and the solution folder is laid out as documented, master_app does
\* not stop at the check: Data Processing is started.
C26_ConventionReachesProcessing ==
    (/\ parquet_check.made
     /\ parquet_check.path_exists
     /\ parquet_check.listing = ConventionListing)
        => (app_pc = "processing" \/ S_processing \in StagesEnded)

\* C27 (as claimed): every upload that is started is started after the
\* dashboard launch, when the four stages have ended.
C27_UploadOnlyAtEnd ==
    \A k \in DOMAIN uploads :
        uploads[k].started =>
            /\ uploads[k].launched
            /\ uploads[k].stages = {S_simulation, S_memberships, S_prepare, S_processing}

(***************************************************************************)
(* Part VI.  Properties of the solution folder.                            *)
(***************************************************************************)
\* C25 (as claimed): the folder the controller downloads into, the folder
\* prepare_duckdb scans and the folder master_app checks are one folder.
C25_SameSolutionFolder ==
    (download_dir # <<>> /\ scan_dir # <<>> /\ check_dir # <<>>)
        => (download_dir = scan_dir /\ scan_dir = check_dir)

(***************************************************************************)
(* Part VII.  Properties of two concurrent processes.                      *)
(***************************************************************************)
\* C24 (as claimed): at most one process has the store open, and no process
\* gets to the connect while the other has the store open: the lock check
\* has kept it waiting and raised.
C24_OneWriter ==
    /\ Cardinality(Holders) <= 1
    /\ proc_contended = {}

(***************************************************************************)
(* Part VIII.  Properties of run_with_timeout.                             *)
(***************************************************************************)
\* func ended before the deadline
EndedInTime == rt_finished_at # -1 /\ rt_finished_at < rt_timeout

====
